---- MODULE Spec2Model ----
(***************************************************************************)
(* A model of textures.py of the Minecraft Overviewer: the module-level    *)
(* statements that slice the atlas and fill blockmap and specialblockmap   *)
(* (specification Spec), the calls of its functions with arguments drawn   *)
(* from bounded sets (specification SpecCalls), the search for a texture   *)
(* file on every machine of a bounded set (specification SpecFiles), and   *)
(* the calls of getBiomeData (specification SpecBiome).                    *)
(*                                                                         *)
(* loads and projected are history variables: the log of the _load_image   *)
(* calls, each with whether a projection had been made before it.  files   *)
(* is the machine the module runs on, raised the exception that ended the  *)
(* import.                                                                 *)
(*                                                                         *)
(* Images are symbolic terms: every PIL operation builds a record naming   *)
(* the operation and its operands, so two images are equal exactly when    *)
(* they were produced by the same operations from the same sources.  An    *)
(* image that the code mutates in place (alpha_over, ImageDraw, putpixel)  *)
(* is a "canvas" term carrying the ordered list of the mutations.  The     *)
(* images given to tintTexture are "raw" terms that carry their pixels,    *)
(* and Pixels evaluates the terms built from them.                         *)
(***************************************************************************)
EXTENDS Integers, Sequences, FiniteSets, TLC

VARIABLES pc, terrain_images, blockmap, biome_textures, specialblockmap, call,
          loads, projected, files, raised, currentBiomeFile, currentBiomeData,
          grasscolor, foliagecolor

vars == <<pc, terrain_images, blockmap, biome_textures, specialblockmap, call,
          loads, projected, files, raised, currentBiomeFile, currentBiomeData,
          grasscolor, foliagecolor>>

(***************************************************************************)
(* Bounds of the model.                                                    *)
(***************************************************************************)
\* the import is run on atlases of side 16*1 .. 16*MaxResolution besides the
\* stock 256
MaxResolution == 40
\* the functions are called under atlases of side 16*1 .. 16*MaxCallResolution
\* besides the stock 256
MaxCallResolution == 1
\* tiles 0 .. MaxInputTile-1 are the face arguments of the builder calls
MaxInputTile == 2
\* ancillary states 0 .. MaxData are the arguments of generate_special_texture calls
MaxData == 17
\* kinds 0 .. MaxKind are the arguments of generate_special_texture calls
MaxKind == 93
\* pixels per raw image given to tintTexture
MaxPixels == 2
\* getBiomeData is called with chunk coordinates -MaxChunk, -1, 0, 31 and MaxChunk
MaxChunk == 32
\* world directories 1 .. MaxWorlds
MaxWorlds == 2
\* contents 1 .. MaxContents a well-sized biome file can hold
MaxContents == 2

\* blockID=None, the default of the builders and projections
NoBlockID == -1

(***************************************************************************)
(* The image algebra (PIL and composite calls made by textures.py).        *)
(***************************************************************************)
None == [op |-> "None"]

Raise(exc) == [op |-> "raise", exc |-> exc]

\* a Python 2-tuple of images
Pair(a, b) == [op |-> "pair", rgb |-> a, alpha |-> b]

\* _load_image(filename): the decoded file
_load_image(filename) == [op |-> "file", name |-> filename]

\* Image.new("RGBA", size, (38,92,255,0)): an empty canvas
NewSized(size) == [op |-> "canvas", base |-> [op |-> "new", size |-> size], ops |-> <<>>]

New(w, h) == NewSized(<<w, h>>)

\* img.copy(): a fresh image that later drawing calls mutate
copy(img) == [op |-> "canvas", base |-> img, ops |-> <<>>]

\* a mutation of an image in place; an image that is no canvas yet becomes
\* one, marked as the object it was made of and not a copy of it
Mutate(img, m) ==
    IF img.op = "canvas" THEN [img EXCEPT !.ops = Append(@, m)]
    ELSE [op |-> "canvas", base |-> img, ops |-> <<m>>, inplace |-> TRUE]

\* composite.alpha_over(dest, src, pos_or_rect, mask); mask is None when omitted
alpha_over(dest, src, pos, mask) ==
    Mutate(dest, [k |-> "alpha_over", src |-> src, pos |-> pos, mask |-> mask])

\* composite.alpha_over(dest, src, pos, src): src is its own mask
paste(dest, src, pos) == alpha_over(dest, src, pos, src)

\* composite.alpha_over(dest, src, pos): the mask argument omitted
overlay(dest, src, pos) == alpha_over(dest, src, pos, None)

\* ImageDraw.Draw(img).rectangle(box, outline=fill, fill=fill)
rectangle(img, box, fill) == Mutate(img, [k |-> "rectangle", box |-> box, fill |-> fill])

\* ImageDraw.Draw(img).line(xy, fill)
line(img, xy, fill) == Mutate(img, [k |-> "line", box |-> xy, fill |-> fill])

\* img.putpixel(at, img.getpixel(from))
copypixel(img, at, from) == Mutate(img, [k |-> "copypixel", at |-> at, from |-> from])

\* img.putpixel(at, colour)
putpixel(img, at, colour) == Mutate(img, [k |-> "putpixel", at |-> at, fill |-> colour])

resize(img, w, h) == [op |-> "resize", size |-> <<w, h>>, src |-> img]

affine(img, w, h, matrix) == [op |-> "affine", size |-> <<w, h>>, matrix |-> matrix, src |-> img]

transpose(img, how) == [op |-> "transpose", how |-> how, src |-> img]

rotate(img, angle, filter) == [op |-> "rotate", angle |-> angle, filter |-> filter, src |-> img]

crop(img, box) == [op |-> "crop", box |-> box, src |-> img]

\* img.split()[i]
band(img, i) == [op |-> "band", idx |-> i, src |-> img]

\* img.convert(mode)
convert(img, mode) == [op |-> "convert", mode |-> mode, src |-> img]

\* ImageEnhance.Brightness(img).enhance(tenths/10)
Brightness(img, tenths) == [op |-> "brightness", tenths |-> tenths, src |-> img]

\* img.putalpha(alpha)
putalpha(img, alpha) == [op |-> "putalpha", alpha |-> alpha, src |-> img]

\* the idiom  a = x.split()[3]; x = Brightness(x).enhance(f); x.putalpha(a)
Darken(img, tenths) == putalpha(Brightness(img, tenths), band(img, 3))

\* the pair every generator returns: (img.convert("RGB"), img.split()[3])
SpritePair(img) == Pair(convert(img, "RGB"), band(img, 3))

\* img.size of the images whose size the code reads: tiles and files of
\* tiles are 16x16
SizeOf(img) == IF "size" \in DOMAIN img THEN img.size ELSE <<16, 16>>

(***************************************************************************)
(* _split_terrain and the projections.                                     *)
(***************************************************************************)
TerrainWidths == {256} \cup {16 * r : r \in 1..MaxResolution}

CallTerrainWidths == {256} \cup {16 * r : r \in 1..MaxCallResolution}

\* _get_terrain_image(): the atlas, a square image
terrain_png(width) == [op |-> "file", name |-> "terrain.png", size |-> <<width, width>>]

\* a variant that walks the atlas column by column
_split_terrain_column_major(terrain) ==
    LET texture_resolution == terrain.size[1] \div 16
    IN [i \in 1..256 |->
          [op |-> "extent", size |-> <<16, 16>>,
           box |-> << ((i - 1) \div 16) * texture_resolution,
                      ((i - 1) % 16) * texture_resolution,
                      ((i - 1) \div 16) * texture_resolution + texture_resolution,
                      ((i - 1) % 16) * texture_resolution + texture_resolution >>,
           src |-> terrain]]

_split_terrain(terrain) ==
    LET texture_resolution == terrain.size[1] \div 16
    IN [i \in 1..256 |->
          [op |-> "extent", size |-> <<16, 16>>,
           box |-> << ((i - 1) % 16) * texture_resolution,
                      ((i - 1) \div 16) * texture_resolution,
                      ((i - 1) % 16) * texture_resolution + texture_resolution,
                      ((i - 1) \div 16) * texture_resolution + texture_resolution >>,
           src |-> terrain]]

\* terrain_images[i] with Python's 0-based index
Tile(i) == terrain_images[i + 1]

\* a variant that shrinks the tile for the cactus only
transform_image_cactus_only(img, blockID) ==
    affine(resize(img, IF blockID \in {81} THEN 15 ELSE 17,
                       IF blockID \in {81} THEN 15 ELSE 17),
           24, 12, "rotate45_halfheight")

transform_image(img, blockID) ==
    affine(resize(img, IF blockID \in {81, 92} THEN 15 ELSE 17,
                       IF blockID \in {81, 92} THEN 15 ELSE 17),
           24, 12, "rotate45_halfheight")

\* lines 159-162 and 165-168: the rows box of img composited at rect onto a
\* fresh transparent image of img's mode and size
KeepRows(img, box, rect) == paste(NewSized(SizeOf(img)), crop(img, box), rect)

\* a variant that leaves the kept half of the step tile where it was
StepSide_in_place(img, blockID) ==
    IF blockID \in {44} THEN KeepRows(img, <<0, 8, 16, 16>>, <<0, 8, 16, 16>>) ELSE img

\* lines 155-162
StepSide(img, blockID) ==
    IF blockID \in {44} THEN KeepRows(img, <<0, 8, 16, 16>>, <<0, 0, 16, 8>>) ELSE img

\* lines 163-168
SnowSide(img, blockID) ==
    IF blockID \in {78} THEN KeepRows(img, <<0, 12, 16, 16>>, <<0, 12, 16, 16>>) ELSE img

transform_image_side(img, blockID) ==
    affine(resize(SnowSide(StepSide(img, blockID), blockID), 12, 12), 12, 18, "shear")

transform_image_slope(img, blockID) ==
    affine(resize(img, 12, 12), 24, 24, "slope")

(***************************************************************************)
(* The cube builders.                                                      *)
(***************************************************************************)
\* lines 219-221: the left face of _build_block, darkened to 0.9
BuildBlockSide(side) == Darken(side, 9)

\* a variant that darkens the left face first and mirrors the darkened face
BuildBlockOtherSide_darkened_first(side) == transpose(Darken(side, 8), "FLIP_LEFT_RIGHT")

\* lines 214, 222-224: the right face of _build_block, the mirror of the
\* projected left face, darkened to 0.8
BuildBlockOtherSide(side) == Darken(transpose(side, "FLIP_LEFT_RIGHT"), 8)

\* a variant whose first loop copies from x+1 like the second
TouchUp_from_right(img) ==
    copypixel(copypixel(copypixel(copypixel(copypixel(copypixel(img,
        <<13, 23>>, <<14, 23>>),
        <<17, 21>>, <<18, 21>>),
        <<21, 19>>, <<22, 19>>),
        <<3, 4>>, <<4, 4>>),
        <<7, 2>>, <<8, 2>>),
        <<11, 0>>, <<12, 0>>)

\* lines 259-264: the six pixel copies that close the seams
TouchUp(img) ==
    copypixel(copypixel(copypixel(copypixel(copypixel(copypixel(img,
        <<13, 23>>, <<12, 23>>),
        <<17, 21>>, <<16, 21>>),
        <<21, 19>>, <<20, 19>>),
        <<3, 4>>, <<4, 4>>),
        <<7, 2>>, <<8, 2>>),
        <<11, 0>>, <<12, 0>>)

\* the three layers of a two-side cube at the anchors of its kind
Layer3(img, side, ps, otherside, po, top, pt) ==
    paste(paste(paste(img, side, ps), otherside, po), top, pt)

\* lines 229-266: the faces layered onto the empty canvas img
BuildBlockLayers(img, top, side, otherside, blockID) ==
    IF blockID \in {37, 38, 6, 39, 40, 83}
      THEN paste(paste(img, side, <<6, 3>>), otherside, <<6, 3>>)
    ELSE IF blockID \in {81}
      THEN TouchUp(Layer3(img, side, <<2, 6>>, otherside, <<10, 6>>, top, <<0, 2>>))
    ELSE IF blockID \in {44}
      THEN TouchUp(Layer3(img, side, <<0, 12>>, otherside, <<12, 12>>, top, <<0, 6>>))
    ELSE IF blockID \in {78}
      THEN TouchUp(Layer3(img, side, <<0, 6>>, otherside, <<12, 6>>, top, <<0, 9>>))
    ELSE TouchUp(Layer3(img, side, <<0, 6>>, otherside, <<12, 6>>, top, <<0, 0>>))

\* lines 212-266: side is the one projection of the side tile
BuildBlockFaces(top, side, blockID) ==
    BuildBlockLayers(New(24, 24), top, BuildBlockSide(side), BuildBlockOtherSide(side), blockID)

\* a variant that touches up the seams of the sprite without sides as well
_build_block_always_touched_up(top, side, blockID) ==
    IF side = None
      THEN TouchUp(paste(New(24, 24), transform_image(top, blockID), <<0, 0>>))
    ELSE BuildBlockFaces(transform_image(top, blockID),
                         transform_image_side(side, blockID), blockID)

_build_block(top, side, blockID) ==
    IF side = None THEN paste(New(24, 24), transform_image(top, blockID), <<0, 0>>)
    ELSE BuildBlockFaces(transform_image(top, blockID),
                         transform_image_side(side, blockID), blockID)

\* lines 285-294
FullSide1(img, side1, blockID) ==
    IF side1 # None
      THEN paste(img, Darken(transpose(transform_image_side(side1, blockID),
                                       "FLIP_LEFT_RIGHT"), 9), <<0, 0>>)
      ELSE img

\* lines 297-305
FullSide2(img, side2, blockID) ==
    IF side2 # None
      THEN paste(img, Darken(transform_image_side(side2, blockID), 8), <<12, 0>>)
      ELSE img

\* lines 307-309: the mask handed to alpha_over is the top argument as passed in
FullBottom(img, bottom, top, blockID) ==
    IF bottom # None
      THEN alpha_over(img, transform_image(bottom, blockID), <<0, 12>>, top)
      ELSE img

\* lines 312-320
FullSide3(img, side3, blockID) ==
    IF side3 # None
      THEN paste(img, Darken(transform_image_side(side3, blockID), 9), <<0, 6>>)
      ELSE img

\* lines 322-331
FullSide4(img, side4, blockID) ==
    IF side4 # None
      THEN paste(img, Darken(transpose(transform_image_side(side4, blockID),
                                       "FLIP_LEFT_RIGHT"), 8), <<12, 6>>)
      ELSE img

\* lines 333-335
FullTop(img, top, blockID) ==
    IF top # None
      THEN paste(img, transform_image(top, blockID), <<0, 0>>)
      ELSE img

\* a variant that layers the bottom after the front faces
_build_full_block_bottom_late(top, side1, side2, side3, side4, bottom, blockID) ==
    FullTop(
      FullBottom(
        FullSide4(
          FullSide3(
            FullSide2(
              FullSide1(New(24, 24), side1, blockID),
              side2, blockID),
            side3, blockID),
          side4, blockID),
        bottom, top, blockID),
      top, blockID)

_build_full_block(top, side1, side2, side3, side4, bottom, blockID) ==
    FullTop(
      FullSide4(
        FullSide3(
          FullBottom(
            FullSide2(
              FullSide1(New(24, 24), side1, blockID),
              side2, blockID),
            bottom, top, blockID),
          side3, blockID),
        side4, blockID),
      top, blockID)

(***************************************************************************)
(* tintTexture.                                                            *)
(***************************************************************************)
\* ImageOps.grayscale(im): im.convert("L"), which drops the alpha band
grayscale(im) == [op |-> "grayscale", src |-> im]

\* ImageOps.colorize(im, black, white): an RGB image
colorize(im, black, white) == [op |-> "colorize", black |-> black, white |-> white, src |-> im]

\* a variant without the putalpha of line 1178
tintTexture_no_putalpha(im, c) == colorize(grayscale(im), <<0, 0, 0>>, c)

tintTexture(im, c) == putalpha(colorize(grayscale(im), <<0, 0, 0>>, c), band(im, 3))

\* the argument image after tintTexture returned: no statement writes to it
tintTexture_im(im, c) == im

(***************************************************************************)
(* blockmap.                                                               *)
(***************************************************************************)
topids == <<
    -1,  1,  0,  2, 16,  4, -1, 17,205,205,237,237, 18, 19, 32, 33,
    34, -1, 52, 48, 49,160,144, -1,176, 74, -1, -1, -1, -1, -1, -1,
    -1, -1, -1, -1, -1, 13, 12, 29, 28, 23, 22, -1, -1,  7,  8, 35,
    36, 37, -1, -1, 65, -1, 25, -1, 98, 24, -1, -1, 86, -1, -1, -1,
    -1, -1, -1, -1, -1, -1, -1, -1, -1, 51, 51, -1, -1, -1, 66, 67,
    66, 69, 72, 73, 74, -1,102,103,104,105, -1,102 >>

sideids == <<
    -1,  1,  3,  2, 16,  4, -1, 17,205,205,237,237, 18, 19, 32, 33,
    34, -1, 52, 48, 49,160,144, -1,192, 74, -1, -1, -1, -1, -1, -1,
    -1, -1, -1, -1, -1, 13, 12, 29, 28, 23, 22, -1, -1,  7,  8, 35,
    36, 37, -1, -1, 65, -1, 25,101, 98, 24, -1, -1, 86, -1, -1, -1,
    -1, -1, -1, -1, -1, -1, -1, -1, -1, 51, 51, -1, -1, -1, 66, 67,
    66, 69, 72, 73, 74, -1,118,103,104,105, -1,118 >>

\* lines 386-388: the kinds that get no cube
NoCube(toptextureid, sidetextureid) == toptextureid = -1 \/ sidetextureid = -1

\* a variant without the padding loop of lines 400-401
_build_blockimages_unpadded ==
    [i \in 1..Len(topids) |->
        IF NoCube(topids[i], sideids[i]) THEN None
        ELSE SpritePair(_build_block(Tile(topids[i]), Tile(sideids[i]), i - 1))]

\* the list _build_blockimages returns when the tables have the same length
_build_blockimages ==
    [i \in 1..256 |->
        IF i > Len(topids) THEN None
        ELSE IF NoCube(topids[i], sideids[i]) THEN None
        ELSE SpritePair(_build_block(Tile(topids[i]), Tile(sideids[i]), i - 1))]

\* lines 417, 419, 423: the pair stored for a water or lava block
WaterPair(img) == Pair(convert(img, "RGB"), img)

\* lines 417-424: the four assignments to blockmap
StoreWater(bm, w1, w2, lava) ==
    [bm EXCEPT ![9 + 1] = w1, ![8 + 1] = w2, ![10 + 1] = lava, ![11 + 1] = lava]

\* blockmap after load_water mutated it
load_water(bm) ==
    LET watertexture == _load_image("water.png")
        lavatexture == _load_image("lava.png")
    IN StoreWater(bm,
                  WaterPair(_build_block(watertexture, None, NoBlockID)),
                  WaterPair(_build_block(watertexture, watertexture, NoBlockID)),
                  WaterPair(_build_block(lavatexture, lavatexture, NoBlockID)))

(***************************************************************************)
(* generate_special_texture, one operator per branch.  A branch that ends  *)
(* without returning falls through to the final "return None": no later    *)
(* branch tests the same blockID.                                          *)
(***************************************************************************)
\* data & mask == mask for a one-bit mask
HasBit(data, mask) == (data \div mask) % 2 = 1

Transparent == <<0, 0, 0, 0>>

Black == <<0, 0, 0>>

\* composite.alpha_over(img, src, pos, src) under an "if"
PasteIf(cond, img, src, pos) == IF cond THEN paste(img, src, pos) ELSE img

\* composite.alpha_over(img, src) under an "if"
OverlayIf(cond, img, src) == IF cond THEN overlay(img, src, <<0, 0>>) ELSE img

\* a variant that blanks the image it is given instead of a copy
Blank_in_place(img, box) == rectangle(img, box, Transparent)

\* a copy of img with a transparent rectangle drawn over box
Blank(img, box) == rectangle(copy(img), box, Transparent)

GenGrass(data) ==
    SpritePair(_build_block(tintTexture(Tile(0), <<115, 175, 71>>), Tile(3), 2))

\* lines 441-451: the test of data == 2 is an "if", not an "elif", so the
\* tile chosen for data == 1 (63) is replaced by the else branch of that test
SaplingTile(data) == IF data = 2 THEN 79 ELSE 15

GenSapling(data) ==
    SpritePair(_build_block(Tile(SaplingTile(data)), Tile(SaplingTile(data)), 6))

\* the face given to _build_full_block for one bit of the water state
WaterFace(data, mask) == IF HasBit(data, mask) THEN _load_image("water.png") ELSE None

GenWater(data) ==
    SpritePair(_build_full_block(WaterFace(data, 16), WaterFace(data, 1), WaterFace(data, 8),
                                 WaterFace(data, 2), WaterFace(data, 4), None, NoBlockID))

GenWood(data) ==
    IF data = 0 THEN SpritePair(_build_block(Tile(21), Tile(20), 17))
    ELSE IF data = 1 THEN SpritePair(_build_block(Tile(21), Tile(116), 17))
    ELSE IF data = 2 THEN SpritePair(_build_block(Tile(21), Tile(117), 17))
    ELSE None

\* _build_block(t, t, blockID)
SameTileBlock(t, blockID) == _build_block(t, t, blockID)

GenLeaves(data) ==
    SpritePair(SameTileBlock(tintTexture(Tile(52), <<37, 118, 25>>), 18))

\* the hand-assembled two-side cube of the dispenser (lines 509-518), the
\* furnaces (852-861, 865-874) and the pumpkins (1133-1143)
HandCube(topid, side1id, side2id) ==
    SpritePair(
      paste(
        paste(
          paste(New(24, 24), transform_image_side(Tile(side1id), NoBlockID), <<0, 6>>),
          transpose(transform_image_side(Tile(side2id), NoBlockID), "FLIP_LEFT_RIGHT"),
          <<12, 6>>),
        transform_image(Tile(topid), NoBlockID), <<0, 0>>))

GenDispenser(data) == HandCube(62, 46, 45)

\* lines 522-585: the tile of each colour
WoolTile == <<64, 210, 194, 178, 162, 146, 130, 114, 225, 209, 193, 177, 161, 145, 129, 113>>

\* a variant that builds white wool from the tile numbered like its kind
GenWool_white_from_tile_35(data) ==
    IF data \in 0..15
      THEN SpritePair(_build_block(Tile(IF data = 0 THEN 35 ELSE WoolTile[data + 1]),
                                   Tile(IF data = 0 THEN 35 ELSE WoolTile[data + 1]), 35))
      ELSE None

GenWool(data) ==
    IF data \in 0..15
      THEN SpritePair(_build_block(Tile(WoolTile[data + 1]), Tile(WoolTile[data + 1]), 35))
      ELSE None

GenSlab(blockID, data) ==
    IF data = 0 THEN SpritePair(_build_block(Tile(6), Tile(5), blockID))
    ELSE IF data = 1 THEN SpritePair(_build_block(Tile(176), Tile(192), blockID))
    ELSE IF data = 2 THEN SpritePair(_build_block(Tile(4), Tile(4), blockID))
    ELSE IF data = 3 THEN SpritePair(_build_block(Tile(16), Tile(16), blockID))
    ELSE None

\* lines 616-621
TorchTile(blockID) == IF blockID = 50 THEN 80 ELSE IF blockID = 75 THEN 115 ELSE 99

\* lines 625-628: the oversized stick
BigTorch(small) ==
    overlay(overlay(overlay(New(16, 16), small, <<-4, -3>>), small, <<-5, -2>>),
            small, <<-3, -2>>)

\* lines 651-661: the torch standing on the floor
FloorTorch(small_crop, slice) ==
    overlay(overlay(overlay(overlay(New(24, 24), slice, <<6, 4>>), small_crop, <<5, 5>>),
                    small_crop, <<6, 5>>),
            slice, <<6, 6>>)

\* lines 653-656
TorchSlice(small_crop) ==
    rectangle(rectangle(copy(small_crop), <<6, 0, 12, 12>>, Transparent),
              <<0, 0, 4, 12>>, Transparent)

\* a variant that puts the east-pointing torch on side3 as well
TorchSprite_east_on_side3(torch, small_crop, blockID, data) ==
    IF data \in {1, 4}
      THEN SpritePair(_build_full_block(None, None, None, rotate(torch, -15, "NEAREST"),
                                        None, None, blockID))
    ELSE IF data = 2
      THEN SpritePair(_build_full_block(None, None, rotate(torch, 15, "NEAREST"), None,
                                        None, None, blockID))
    ELSE IF data = 3
      THEN SpritePair(_build_full_block(None, rotate(torch, 15, "NEAREST"), None, None,
                                        None, None, blockID))
    ELSE IF data = 5 THEN SpritePair(FloorTorch(small_crop, TorchSlice(small_crop)))
    ELSE Raise("UnboundLocalError")

\* lines 631-663; rotation = 15
TorchSprite(torch, small_crop, blockID, data) ==
    IF data = 1
      THEN SpritePair(_build_full_block(None, None, None, rotate(torch, -15, "NEAREST"),
                                        None, None, blockID))
    ELSE IF data = 2
      THEN SpritePair(_build_full_block(None, None, rotate(torch, 15, "NEAREST"), None,
                                        None, None, blockID))
    ELSE IF data = 3
      THEN SpritePair(_build_full_block(None, rotate(torch, 15, "NEAREST"), None, None,
                                        None, None, blockID))
    ELSE IF data = 4
      THEN SpritePair(_build_full_block(None, None, None, None,
                                        rotate(torch, -15, "NEAREST"), None, blockID))
    ELSE IF data = 5 THEN SpritePair(FloorTorch(small_crop, TorchSlice(small_crop)))
    ELSE Raise("UnboundLocalError")

GenTorch(blockID, data) ==
    TorchSprite(BigTorch(Tile(TorchTile(blockID))),
                crop(Tile(TorchTile(blockID)), <<2, 2, 14, 14>>), blockID, data)

\* lines 668-679: side1 is the projected fire texture, side2 its mirror
FireSprite(side1, side2) ==
    SpritePair(paste(paste(paste(paste(New(24, 24), side1, <<12, 0>>), side2, <<0, 0>>),
                           side1, <<0, 6>>),
                     side2, <<12, 6>>))

GenFire(data) ==
    FireSprite(transform_image_side(_load_image("fire.png"), NoBlockID),
               transpose(transform_image_side(_load_image("fire.png"), NoBlockID),
                         "FLIP_LEFT_RIGHT"))

\* lines 718-720, 725-727: the half tile pasted in the back
StairBack(t) == overlay(New(24, 24), transform_image(t, NoBlockID), <<0, 6>>)

\* lines 705-715, 733-746: the second step layered over the first
StairFront(img, riser, tread) == overlay(overlay(img, riser, <<6, 3>>), tread, <<0, 6>>)

\* lines 703-748
StairSprite(texture, side, u, d, l, r, data) ==
    IF data = 0
      THEN SpritePair(StairFront(
             _build_full_block(r, None, None, d, transpose(side, "FLIP_LEFT_RIGHT"),
                               None, NoBlockID),
             Darken(transform_image_side(u, NoBlockID), 8),
             transform_image(l, NoBlockID)))
    ELSE IF data = 1
      THEN SpritePair(overlay(StairBack(r),
                              _build_full_block(l, None, None, texture, side, None, NoBlockID),
                              <<0, 0>>))
    ELSE IF data = 2
      THEN SpritePair(overlay(StairBack(u),
                              _build_full_block(d, None, None, side, texture, None, NoBlockID),
                              <<0, 0>>))
    ELSE IF data = 3
      THEN SpritePair(putpixel(StairFront(
             _build_full_block(u, None, None, transpose(side, "FLIP_LEFT_RIGHT"), d,
                               None, NoBlockID),
             Darken(transpose(transform_image_side(u, NoBlockID), "FLIP_LEFT_RIGHT"), 7),
             transform_image(d, NoBlockID)), <<18, 3>>, Transparent))
    ELSE Raise("UnboundLocalError")

\* lines 684-701: the tile and its five partial copies
StairTile(blockID) == IF blockID = 53 THEN 4 ELSE 16

GenStairs(blockID, data) ==
    StairSprite(Tile(StairTile(blockID)),
                Blank(Tile(StairTile(blockID)), <<0, 0, 7, 6>>),
                Blank(Tile(StairTile(blockID)), <<0, 8, 15, 15>>),
                Blank(Tile(StairTile(blockID)), <<0, 0, 15, 6>>),
                Blank(Tile(StairTile(blockID)), <<8, 0, 15, 15>>),
                Blank(Tile(StairTile(blockID)), <<0, 0, 7, 15>>),
                data)

\* lines 769-787: the cross tile with three of its four arms blanked
Branch(cross, r1, r2, r3) ==
    rectangle(rectangle(rectangle(copy(cross), r1, Transparent), r2, Transparent),
              r3, Transparent)

\* lines 800-811: the bottom texture assembled from the branches
WireBranches(cross, data) ==
    OverlayIf(HasBit(data, 4),
      OverlayIf(HasBit(data, 2),
        OverlayIf(HasBit(data, 8),
          OverlayIf(HasBit(data, 1), New(16, 16),
                    Branch(cross, <<0, 0, 4, 15>>, <<11, 0, 15, 15>>, <<0, 11, 15, 15>>)),
          Branch(cross, <<0, 0, 15, 4>>, <<0, 0, 4, 15>>, <<0, 11, 15, 15>>)),
        Branch(cross, <<0, 0, 15, 4>>, <<11, 0, 15, 15>>, <<0, 11, 15, 15>>)),
      Branch(cross, <<0, 0, 15, 4>>, <<0, 0, 4, 15>>, <<11, 0, 15, 15>>))

\* a variant that rotates the wire of the x direction instead
WireBottom_rotated_x(wire, cross, data) ==
    IF data % 64 = 0 THEN copy(cross)
    ELSE IF data % 16 = 10 THEN rotate(copy(wire), 90, "NEAREST")
    ELSE IF data % 16 = 5 THEN copy(wire)
    ELSE WireBranches(cross, data)

\* lines 790-811
WireBottom(wire, cross, data) ==
    IF data % 64 = 0 THEN copy(cross)
    ELSE IF data % 16 = 10 THEN copy(wire)
    ELSE IF data % 16 = 5 THEN rotate(copy(wire), 90, "NEAREST")
    ELSE WireBranches(cross, data)

\* lines 814-822: a wire going up a side
WireSide(wire, data, mask) ==
    IF HasBit(data, mask) THEN rotate(wire, 90, "NEAREST") ELSE None

\* lines 753-766: the tint of the powered and of the unpowered wire
WireColour(data) == IF HasBit(data, 64) THEN <<255, 0, 0>> ELSE <<48, 0, 0>>

\* lines 768-826
WireSprite(wire, cross, data) ==
    SpritePair(_build_full_block(None, WireSide(wire, data, 32), WireSide(wire, data, 16),
                                 None, None, WireBottom(wire, cross, data), NoBlockID))

GenRedstoneWire(data) ==
    WireSprite(tintTexture(Tile(165), WireColour(data)),
               tintTexture(Tile(164), WireColour(data)), data)

GenCraftingTable(data) ==
    SpritePair(_build_full_block(Tile(43), None, None, Tile(43 + 16), Tile(43 + 16 + 1), None, 58))

\* lines 842-848: crop1 is the projected top, crop2 the projected side
CropSprite(crop1, crop2) ==
    SpritePair(paste(paste(paste(New(24, 24), crop1, <<0, 12>>), crop2, <<6, 3>>),
                     transpose(crop2, "FLIP_LEFT_RIGHT"), <<6, 3>>))

GenCrops(data) ==
    IF 88 + data > 255 THEN Raise("IndexError")
    ELSE CropSprite(transform_image(Tile(88 + data), 59), transform_image_side(Tile(88 + data), 59))

GenFurnace(data) == HandCube(62, 45, 44)

GenLitFurnace(data) == HandCube(62, 45, 45 + 16)

\* lines 878-881
DoorTile(blockID, data) ==
    IF HasBit(data, 8) THEN (IF blockID = 64 THEN 81 ELSE 82)
    ELSE (IF blockID = 64 THEN 97 ELSE 98)

\* lines 885-924: whether the tile is mirrored before the projection, whether
\* the projection is mirrored, and the anchor; swung is data & 0x4
\* a variant in which the top half of a door is always drawn closed
DoorRule_top_half_closed(data) ==
    LET d == IF HasBit(data, 8) THEN data % 4 ELSE data % 8
    IN  IF d % 4 = 0
          THEN IF ~HasBit(d, 4) THEN [flipTile |-> FALSE, flipFace |-> FALSE, pos |-> <<0, 6>>]
               ELSE [flipTile |-> TRUE, flipFace |-> TRUE, pos |-> <<0, 0>>]
        ELSE IF d % 4 = 1
          THEN IF ~HasBit(d, 4) THEN [flipTile |-> FALSE, flipFace |-> TRUE, pos |-> <<0, 0>>]
               ELSE [flipTile |-> FALSE, flipFace |-> FALSE, pos |-> <<12, 0>>]
        ELSE IF d % 4 = 2
          THEN IF ~HasBit(d, 4) THEN [flipTile |-> TRUE, flipFace |-> FALSE, pos |-> <<12, 0>>]
               ELSE [flipTile |-> FALSE, flipFace |-> TRUE, pos |-> <<12, 6>>]
        ELSE IF ~HasBit(d, 4) THEN [flipTile |-> TRUE, flipFace |-> TRUE, pos |-> <<12, 6>>]
             ELSE [flipTile |-> TRUE, flipFace |-> FALSE, pos |-> <<0, 6>>]

DoorRule(data) ==
    IF data % 4 = 0
      THEN IF ~HasBit(data, 4) THEN [flipTile |-> FALSE, flipFace |-> FALSE, pos |-> <<0, 6>>]
           ELSE [flipTile |-> TRUE, flipFace |-> TRUE, pos |-> <<0, 0>>]
    ELSE IF data % 4 = 1
      THEN IF ~HasBit(data, 4) THEN [flipTile |-> FALSE, flipFace |-> TRUE, pos |-> <<0, 0>>]
           ELSE [flipTile |-> FALSE, flipFace |-> FALSE, pos |-> <<12, 0>>]
    ELSE IF data % 4 = 2
      THEN IF ~HasBit(data, 4) THEN [flipTile |-> TRUE, flipFace |-> FALSE, pos |-> <<12, 0>>]
           ELSE [flipTile |-> FALSE, flipFace |-> TRUE, pos |-> <<12, 6>>]
    ELSE IF ~HasBit(data, 4) THEN [flipTile |-> TRUE, flipFace |-> TRUE, pos |-> <<12, 6>>]
         ELSE [flipTile |-> TRUE, flipFace |-> FALSE, pos |-> <<0, 6>>]

\* x.transpose(Image.FLIP_LEFT_RIGHT) where the rule asks for it
FlipIf(cond, img) == IF cond THEN transpose(img, "FLIP_LEFT_RIGHT") ELSE img

\* the one door face of a state
DoorSprite(raw_door, rule) ==
    SpritePair(paste(New(24, 24),
                     FlipIf(rule.flipFace,
                            transform_image_side(FlipIf(rule.flipTile, raw_door), NoBlockID)),
                     rule.pos))

GenDoor(blockID, data) == DoorSprite(Tile(DoorTile(blockID, data)), DoorRule(data))

\* lines 932-954: tex is the projected ladder tile
LadderSprite(tex, data) ==
    IF data = 5 THEN SpritePair(paste(New(24, 24), tex, <<0, 6>>))
    ELSE IF data = 2
      THEN SpritePair(paste(New(24, 24), transpose(tex, "FLIP_LEFT_RIGHT"), <<12, 6>>))
    ELSE IF data = 3
      THEN SpritePair(paste(New(24, 24), transpose(tex, "FLIP_LEFT_RIGHT"), <<0, 0>>))
    ELSE IF data = 4 THEN SpritePair(paste(New(24, 24), tex, <<12, 0>>))
    ELSE None

GenLadder(data) == LadderSprite(transform_image_side(Tile(83), NoBlockID), data)

\* lines 959-976: the straight tile of the kind and state
RailStraight(blockID, data) ==
    IF blockID = 27 THEN (IF ~HasBit(data, 8) THEN 163 ELSE 179)
    ELSE IF blockID = 28 THEN 195
    ELSE 128

\* a variant that keeps the powered bit in the orientation
RailOrientation_unfiltered(blockID, data) == data

\* line 968: the powered bit is filtered out for the powered rail only
RailOrientation(blockID, data) == IF blockID = 27 THEN data % 8 ELSE data

\* lines 1029-1032: a flat track
FlatTrack(track) == SpritePair(paste(New(24, 24), track, <<0, 12>>))

Grey == <<164, 164, 164>>

\* lines 979-1032
RailSprite(raw_straight, raw_corner, blockID, data) ==
    IF data = 0 THEN FlatTrack(transform_image(raw_straight, blockID))
    ELSE IF data = 6 THEN FlatTrack(transform_image(raw_corner, blockID))
    ELSE IF data = 7
      THEN FlatTrack(transform_image(rotate(raw_corner, 270, "NEAREST"), blockID))
    ELSE IF data = 8
      THEN FlatTrack(transform_image(
             rotate(transpose(raw_corner, "FLIP_TOP_BOTTOM"), 90, "NEAREST"), blockID))
    ELSE IF data = 9
      THEN FlatTrack(transform_image(transpose(raw_corner, "FLIP_TOP_BOTTOM"), blockID))
    ELSE IF data = 1
      THEN FlatTrack(transform_image(rotate(raw_straight, 90, "NEAREST"), blockID))
    ELSE IF data = 2
      THEN SpritePair(paste(New(24, 24),
                            transpose(transform_image_slope(raw_straight, blockID),
                                      "FLIP_LEFT_RIGHT"),
                            <<2, 0>>))
    ELSE IF data = 3 THEN SpritePair(line(New(24, 24), <<11, 11, 23, 17>>, Grey))
    ELSE IF data = 4
      THEN SpritePair(paste(New(24, 24), transform_image_slope(raw_straight, blockID),
                            <<0, 0>>))
    ELSE IF data = 5 THEN SpritePair(line(New(24, 24), <<1, 17, 12, 11>>, Grey))
    ELSE FlatTrack(transform_image(raw_straight, blockID))

GenRail(blockID, data) ==
    RailSprite(Tile(RailStraight(blockID, data)), Tile(112), blockID,
               RailOrientation(blockID, data))

\* lines 1039-1050, 1075-1083: the plank tile seen through a mask of black
\* rectangles
FenceMasked(raw_texture, mask) == alpha_over(New(16, 16), raw_texture, <<0, 0>>, mask)

\* lines 1053-1071: the post
FenceBig(fence_side0, fence_top) ==
    paste(paste(paste(New(24, 24), Darken(fence_side0, 9), <<5, 4>>),
                Darken(transpose(fence_side0, "FLIP_LEFT_RIGHT"), 8), <<7, 4>>),
          fence_top, <<0, 1>>)

\* a variant that layers the post after all four stubs
FenceSprite_post_on_top(fence_big, fence_small_side, fence_small_other_side, data) ==
    SpritePair(
      paste(
        PasteIf(HasBit(data, 4),
          PasteIf(HasBit(data, 2),
            PasteIf(HasBit(data, 8),
              PasteIf(HasBit(data, 1), New(24, 24), fence_small_side, <<-2, 0>>),
              fence_small_other_side, <<14, 0>>),
            fence_small_other_side, <<6, 4>>),
          fence_small_side, <<6, 4>>),
        fence_big, <<0, 0>>))

\* lines 1102-1129: the stubs behind the post, the post, the stubs in front
FenceSprite(fence_big, fence_small_side, fence_small_other_side, data) ==
    SpritePair(
      PasteIf(HasBit(data, 4),
        PasteIf(HasBit(data, 2),
          paste(
            PasteIf(HasBit(data, 8),
              PasteIf(HasBit(data, 1), New(24, 24), fence_small_side, <<-2, 0>>),
              fence_small_other_side, <<14, 0>>),
            fence_big, <<0, 0>>),
          fence_small_other_side, <<6, 4>>),
        fence_small_side, <<6, 4>>))

\* lines 1086-1097: both stubs are darkened to 0.9
FenceStubs(fence_big, fence_small_side0, data) ==
    FenceSprite(fence_big, Darken(fence_small_side0, 9),
                Darken(transpose(fence_small_side0, "FLIP_LEFT_RIGHT"), 9), data)

GenFence(data) ==
    FenceStubs(
      FenceBig(
        transform_image_side(
          FenceMasked(Tile(4), rectangle(New(16, 16), <<6, 1, 9, 15>>, Black)), 85),
        transform_image(
          FenceMasked(Tile(4), rectangle(New(16, 16), <<6, 6, 9, 9>>, Black)), 85)),
      transform_image_side(
        FenceMasked(Tile(4),
                    rectangle(rectangle(New(16, 16), <<10, 1, 15, 3>>, Black),
                              <<10, 7, 15, 9>>, Black)), 85),
      data)

GenPumpkin(blockID, data) == HandCube(102, IF blockID = 86 THEN 119 ELSE 120, 118)

\* lines 1152-1165: top and side are the projections of tiles 121 and 122
CakeSprite(top, side) ==
    SpritePair(paste(paste(paste(New(24, 24), Darken(side, 9), <<2, 12>>),
                           Darken(transpose(side, "FLIP_LEFT_RIGHT"), 8), <<10, 12>>),
                     top, <<0, 8>>))

GenCake(data) ==
    CakeSprite(transform_image(Tile(121), 92), transform_image_side(Tile(122), 92))

generate_special_texture(blockID, data) ==
    IF blockID = 2 THEN GenGrass(data)
    ELSE IF blockID = 6 THEN GenSapling(data)
    ELSE IF blockID = 9 THEN GenWater(data)
    ELSE IF blockID = 17 THEN GenWood(data)
    ELSE IF blockID = 18 THEN GenLeaves(data)
    ELSE IF blockID = 23 THEN GenDispenser(data)
    ELSE IF blockID = 35 THEN GenWool(data)
    ELSE IF blockID \in {43, 44} THEN GenSlab(blockID, data)
    ELSE IF blockID \in {50, 75, 76} THEN GenTorch(blockID, data)
    ELSE IF blockID = 51 THEN GenFire(data)
    ELSE IF blockID \in {53, 67} THEN GenStairs(blockID, data)
    ELSE IF blockID = 55 THEN GenRedstoneWire(data)
    ELSE IF blockID = 58 THEN GenCraftingTable(data)
    ELSE IF blockID = 59 THEN GenCrops(data)
    ELSE IF blockID = 61 THEN GenFurnace(data)
    ELSE IF blockID = 62 THEN GenLitFurnace(data)
    ELSE IF blockID \in {64, 71} THEN GenDoor(blockID, data)
    ELSE IF blockID = 65 THEN GenLadder(data)
    ELSE IF blockID \in {27, 28, 66} THEN GenRail(blockID, data)
    ELSE IF blockID = 85 THEN GenFence(data)
    ELSE IF blockID \in {86, 91} THEN GenPumpkin(blockID, data)
    ELSE IF blockID = 92 THEN GenCake(data)
    ELSE None

(***************************************************************************)
(* The declared state domains and the loop that fills specialblockmap.     *)
(***************************************************************************)
special_blocks == { 2,  6,  9, 17, 18, 23, 27, 28, 35, 43, 44, 50, 51,
                   53, 55, 58, 59, 61, 62, 64, 65, 66, 67, 71, 75, 76,
                   85, 86, 91, 92}

\* range(n)
range(n) == [i \in 1..n |-> i - 1]

special_map(blockID) ==
    CASE blockID = 6 -> range(4)
      [] blockID = 9 -> range(32)
      [] blockID = 17 -> range(4)
      [] blockID = 23 -> range(6)
      [] blockID = 27 -> range(14)
      [] blockID = 28 -> range(6)
      [] blockID = 35 -> range(16)
      [] blockID = 43 -> range(4)
      [] blockID = 44 -> range(4)
      [] blockID = 50 -> <<1, 2, 3, 4, 5>>
      [] blockID = 51 -> range(16)
      [] blockID = 53 -> range(4)
      [] blockID = 55 -> range(128)
      [] blockID = 58 -> <<0>>
      [] blockID = 59 -> range(8)
      [] blockID = 61 -> range(6)
      [] blockID = 62 -> range(6)
      [] blockID = 64 -> range(16)
      [] blockID = 65 -> <<2, 3, 4, 5>>
      [] blockID = 66 -> range(10)
      [] blockID = 67 -> range(4)
      [] blockID = 71 -> range(16)
      [] blockID = 75 -> <<1, 2, 3, 4, 5>>
      [] blockID = 76 -> <<1, 2, 3, 4, 5>>
      [] blockID = 85 -> range(17)
      [] blockID = 86 -> range(5)
      [] blockID = 91 -> range(5)
      [] blockID = 92 -> range(6)
      [] blockID = 2 -> range(11)
      [] blockID = 18 -> range(16)

\* the states declared for a kind, as a set
StatesOf(blockID) == {special_map(blockID)[i] : i \in DOMAIN special_map(blockID)}

\* the declared (kind, state) pairs
DeclaredPairs == UNION {{<<k, s>> : s \in StatesOf(k)} : k \in special_blocks}

\* "for blockID in special_blocks": a CPython set of small integers is
\* walked in ascending order
RECURSIVE Ascending(_)
Ascending(S) ==
    IF S = {} THEN <<>>
    ELSE LET m == CHOOSE x \in S : \A y \in S : x <= y
         IN <<m>> \o Ascending(S \ {m})

KindOrder == Ascending(special_blocks)

\* the (kind, state) pairs of one kind in the order of the inner loop
PairsOfKind(blockID) ==
    [i \in DOMAIN special_map(blockID) |-> <<blockID, special_map(blockID)[i]>>]

\* the pairs in the order the two loops of lines 1300-1302 visit them
RECURSIVE LoopOrder(_)
LoopOrder(kinds) ==
    IF kinds = <<>> THEN <<>>
    ELSE PairsOfKind(Head(kinds)) \o LoopOrder(Tail(kinds))

(***************************************************************************)
(* Specification Spec: the module-level statements in source order.        *)
(***************************************************************************)
Exceptions == {"UnboundLocalError", "IndexError", "Exception"}

IsRaise(v) == \E e \in Exceptions : v = Raise(e)

(***************************************************************************)
(* _find_file and _load_image (lines 29-93).                               *)
(***************************************************************************)
TextureFiles == {"terrain.png", "water.png", "lava.png", "fire.png"}

\* the machine the module runs on: sys.platform, os.environ, the search
\* locations and the side of the terrain.png it would find.  A directory
\* holds the file or not.  A candidate minecraft.jar does not exist; or it
\* holds the file; or jar.open raises KeyError (no such member); or
\* zipfile.ZipFile raises IOError (unreadable) or BadZipfile (no archive).
Environments ==
    [darwin : BOOLEAN, appdata : BOOLEAN, home : BOOLEAN,
     programdir : {"absent", "file"}, applications : {"absent", "file"},
     appdata_jar : {"absent", "has", "KeyError", "IOError", "BadZipfile"},
     library_jar : {"absent", "has", "KeyError", "IOError", "BadZipfile"},
     home_jar : {"absent", "has", "KeyError", "IOError", "BadZipfile"},
     cwd : {"absent", "file"}, textures : {"absent", "file"}, width : {256}]

\* an installation that holds every texture file in the program directory,
\* with an atlas of the given side
Installed(width) ==
    [darwin |-> FALSE, appdata |-> FALSE, home |-> TRUE,
     programdir |-> "file", applications |-> "absent",
     appdata_jar |-> "absent", library_jar |-> "absent", home_jar |-> "absent",
     cwd |-> "absent", textures |-> "absent", width |-> width]

\* lines 54-64: the candidate archives in search order; the program
\* directory and the working directory exist and are no archives, so
\* zipfile.ZipFile raises IOError on them
jarpaths(env) ==
    (IF env.appdata THEN <<[at |-> "appdata_jar", does |-> env.appdata_jar]>> ELSE <<>>)
      \o (IF env.home THEN <<[at |-> "library_jar", does |-> env.library_jar],
                             [at |-> "home_jar", does |-> env.home_jar]>>
          ELSE <<>>)
      \o <<[at |-> "programdir_as_jar", does |-> "IOError"],
           [at |-> "cwd_as_jar", does |-> "IOError"]>>

\* lines 66-72: the loop over jarpaths; an open handle to the file found,
\* None when the loop ends without a return
RECURSIVE SearchJars(_, _)
SearchJars(jars, filename) ==
    IF jars = <<>> THEN None
    ELSE IF Head(jars).does = "has" THEN [op |-> "handle", at |-> Head(jars).at, name |-> filename]
    ELSE IF Head(jars).does \in {"absent", "KeyError", "IOError"}
      THEN SearchJars(Tail(jars), filename)
    ELSE Raise(Head(jars).does)

\* lines 44-84; line 84 raises IOError("Could not find the file {0}. ...".format(filename))
_find_file(env, filename) ==
    IF env.programdir = "file" THEN [op |-> "handle", at |-> "programdir", name |-> filename]
    ELSE IF env.darwin /\ env.applications = "file" THEN [op |-> "handle", at |-> "applications", name |-> filename]
    ELSE IF SearchJars(jarpaths(env), filename) # None
      THEN SearchJars(jarpaths(env), filename)
    ELSE IF env.cwd = "file" THEN [op |-> "handle", at |-> "cwd", name |-> filename]
    ELSE IF env.textures = "file" THEN [op |-> "handle", at |-> "textures", name |-> filename]
    ELSE [op |-> "raise", exc |-> "IOError", names |-> filename]

\* lines 86-90 on a machine: the exception of _find_file passes through,
\* the file found is read and decoded
_load_image_on(env, filename) ==
    IF _find_file(env, filename).op = "raise" THEN _find_file(env, filename)
    ELSE IF filename = "terrain.png" THEN terrain_png(env.width)
    ELSE _load_image(filename)

\* one entry of the log of file loads: _load_image(filename) was called,
\* before or after the first call of a projection
Load(filename, after) == [file |-> filename, projected |-> after]

\* lines 459 and 667: the texture file a call of generate_special_texture loads
LoadsOf(blockID, data) ==
    IF blockID = 9 THEN <<"water.png">>
    ELSE IF blockID = 51 THEN <<"fire.png">>
    ELSE <<>>

\* the image, or the layer of a canvas, was built with a call of
\* transform_image, transform_image_side or transform_image_slope: each
\* returns the result of an affine transform
RECURSIVE HasProjection(_)
HasProjection(x) ==
    IF "k" \in DOMAIN x
      THEN x.k = "alpha_over" /\ (HasProjection(x.src) \/ HasProjection(x.mask))
    ELSE IF x.op = "affine" THEN TRUE
    ELSE IF x.op = "canvas"
      THEN HasProjection(x.base) \/ \E i \in DOMAIN x.ops : HasProjection(x.ops[i])
    ELSE IF x.op = "pair" THEN HasProjection(x.rgb) \/ HasProjection(x.alpha)
    ELSE IF x.op = "putalpha" THEN HasProjection(x.src) \/ HasProjection(x.alpha)
    ELSE IF "src" \in DOMAIN x THEN HasProjection(x.src)
    ELSE FALSE

Init ==
    /\ pc = "split_terrain"
    /\ terrain_images = <<>>
    /\ blockmap = <<>>
    /\ biome_textures = <<>>
    /\ specialblockmap = <<>>
    /\ call = None
    /\ loads = <<>>
    /\ projected = FALSE
    /\ files \in {Installed(width) : width \in TerrainWidths}
    /\ raised = None
    /\ currentBiomeFile = None
    /\ currentBiomeData = None
    /\ grasscolor = None
    /\ foliagecolor = None

\* line 116: terrain_images = _split_terrain(_get_terrain_image()); the
\* exception of _load_image is not caught and ends the import.  The module
\* is single-threaded: the statement does not run while a call is under way.
SplitTerrain ==
    /\ pc = "split_terrain"
    /\ call = None
    /\ loads' = Append(loads, Load("terrain.png", projected))
    /\ IF _load_image_on(files, "terrain.png").op = "raise"
         THEN /\ pc' = "failed"
              /\ raised' = _load_image_on(files, "terrain.png")
              /\ UNCHANGED terrain_images
         ELSE /\ terrain_images' = _split_terrain(_load_image_on(files, "terrain.png"))
              /\ pc' = "build_blockimages"
              /\ UNCHANGED raised
    /\ UNCHANGED <<blockmap, biome_textures, specialblockmap, call, projected, files,
                   currentBiomeFile, currentBiomeData,
                   grasscolor, foliagecolor>>

\* line 403: blockmap = _build_blockimages(); line 381 raises when the
\* tables differ in length
BuildBlockImages ==
    /\ pc = "build_blockimages"
    /\ IF Len(topids) # Len(sideids)
         THEN /\ pc' = "failed"
              /\ raised' = Raise("Exception")
              /\ UNCHANGED <<blockmap, projected>>
         ELSE /\ pc' = "load_water"
              /\ blockmap' = _build_blockimages
              /\ projected' = (projected \/ \E i \in DOMAIN _build_blockimages :
                                               HasProjection(_build_blockimages[i]))
              /\ UNCHANGED raised
    /\ UNCHANGED <<terrain_images, biome_textures, specialblockmap, call, loads,
                   files, currentBiomeFile, currentBiomeData,
                   grasscolor, foliagecolor>>

\* line 425: load_water()
LoadWater ==
    /\ pc = "load_water"
    /\ blockmap' = load_water(blockmap)
    /\ loads' = loads \o <<Load("water.png", projected),
                           Load("lava.png", projected \/ HasProjection(load_water(blockmap)[9 + 1]))>>
    /\ projected' = (projected \/ HasProjection(load_water(blockmap)[10 + 1]))
    /\ pc' = "biome_textures"
    /\ UNCHANGED <<terrain_images, biome_textures, specialblockmap, call, files, raised, currentBiomeFile, currentBiomeData,
                   grasscolor, foliagecolor>>

\* lines 1182-1183: biome_grass_texture and biome_leaf_texture
BuildBiomeTextures ==
    /\ pc = "biome_textures"
    /\ biome_textures' = <<_build_block(Tile(0), Tile(3), 2), _build_block(Tile(52), Tile(52), 18)>>
    /\ projected' = (projected \/ HasProjection(_build_block(Tile(0), Tile(3), 2)))
    /\ pc' = "specialblockmap"
    /\ UNCHANGED <<terrain_images, blockmap, specialblockmap, call, loads, files, raised, currentBiomeFile, currentBiomeData,
                   grasscolor, foliagecolor>>

\* the iterations whose call raises
Raising(pairs) ==
    {j \in 1..Len(pairs) : IsRaise(generate_special_texture(pairs[j][1], pairs[j][2]))}

\* the number of iterations the loops complete: they stop at the first call
\* that raises
Completed(pairs, raising) ==
    IF raising = {} THEN Len(pairs)
    ELSE (CHOOSE j \in raising : \A i \in raising : j <= i) - 1

\* the number of iterations the loops start: the completed ones and the one
\* that raised
Attempted(pairs, raising) ==
    IF raising = {} THEN Len(pairs) ELSE Completed(pairs, raising) + 1

\* the loads the first n iterations log, in loop order; a call loads its
\* file before it projects anything
LoadsDuring(pairs, n, before) ==
    LET loading == SelectSeq([j \in 1..n |-> j],
                             LAMBDA j : LoadsOf(pairs[j][1], pairs[j][2]) # <<>>)
    IN [k \in 1..Len(loading) |->
          Load(Head(LoadsOf(pairs[loading[k]][1], pairs[loading[k]][2])),
               before \/ \E i \in 1..(loading[k] - 1) :
                           HasProjection(generate_special_texture(pairs[i][1], pairs[i][2])))]

\* specialblockmap after the first n iterations
Filled(pairs, n) ==
    [p \in {pairs[j] : j \in 1..n} |-> generate_special_texture(p[1], p[2])]

\* lines 1298-1302: specialblockmap = {} and the two loops that fill it; an
\* exception ends the import with the entries stored so far
FillSpecial ==
    /\ pc = "specialblockmap"
    /\ specialblockmap' = Filled(LoopOrder(KindOrder),
                               Completed(LoopOrder(KindOrder), Raising(LoopOrder(KindOrder))))
    /\ pc' = IF Raising(LoopOrder(KindOrder)) = {} THEN "done" ELSE "failed"
    /\ raised' = IF Raising(LoopOrder(KindOrder)) = {} THEN raised
                 ELSE generate_special_texture(
                        LoopOrder(KindOrder)[Attempted(LoopOrder(KindOrder),
                                                       Raising(LoopOrder(KindOrder)))][1],
                        LoopOrder(KindOrder)[Attempted(LoopOrder(KindOrder),
                                                       Raising(LoopOrder(KindOrder)))][2])
    /\ loads' = loads \o LoadsDuring(LoopOrder(KindOrder),
                                     Attempted(LoopOrder(KindOrder), Raising(LoopOrder(KindOrder))),
                                     projected)
    /\ projected' = (projected \/ \E j \in 1..Attempted(LoopOrder(KindOrder),
                                                          Raising(LoopOrder(KindOrder))) :
                                     HasProjection(generate_special_texture(
                                       LoopOrder(KindOrder)[j][1], LoopOrder(KindOrder)[j][2])))
    /\ UNCHANGED <<terrain_images, blockmap, biome_textures, call,
                   files, currentBiomeFile, currentBiomeData,
                   grasscolor, foliagecolor>>

Next ==
    \/ SplitTerrain
    \/ BuildBlockImages
    \/ LoadWater
    \/ BuildBiomeTextures
    \/ FillSpecial

Spec == Init /\ [][Next]_vars

(***************************************************************************)
(* Specification SpecCalls: the functions called with arguments drawn      *)
(* from bounded sets.  The builders, tintTexture and                       *)
(* generate_special_texture read no global but terrain_images, so the      *)
(* calls start from the state after line 116, the state the first call of  *)
(* _build_block is made in.                                                *)
(***************************************************************************)
InitCalls ==
    /\ pc = "build_blockimages"
    /\ files \in {Installed(width) : width \in CallTerrainWidths}
    /\ terrain_images = _split_terrain(_load_image_on(files, "terrain.png"))
    /\ blockmap = <<>>
    /\ biome_textures = <<>>
    /\ specialblockmap = <<>>
    /\ call = None
    /\ loads = <<Load("terrain.png", FALSE)>>
    /\ projected = FALSE
    /\ raised = None
    /\ currentBiomeFile = None
    /\ currentBiomeData = None
    /\ grasscolor = None
    /\ foliagecolor = None

\* the tiles and absent faces handed to the builders
InputTiles == {Tile(i) : i \in 0..(MaxInputTile - 1)}

OptionalTiles == InputTiles \cup {None}

\* the kinds the builders treat specially, a plain kind, and no kind
BuilderKinds == {NoBlockID, 1, 6, 44, 78, 81, 92}

CallGenerateSpecialTexture ==
    /\ call = None
    /\ \E blockID \in 0..MaxKind, data \in 0..MaxData :
         call' = [fn |-> "generate_special_texture", args |-> <<blockID, data>>,
                  result |-> generate_special_texture(blockID, data)]
    /\ loads' = loads \o [k \in DOMAIN LoadsOf(call'.args[1], call'.args[2]) |->
                             Load(LoadsOf(call'.args[1], call'.args[2])[k], projected)]
    /\ projected' = (projected \/ HasProjection(call'.result))
    /\ UNCHANGED <<pc, terrain_images, blockmap, biome_textures, specialblockmap,
                   files, raised, currentBiomeFile, currentBiomeData,
                   grasscolor, foliagecolor>>

CallBuildBlock ==
    /\ call = None
    /\ \E top \in InputTiles, side \in OptionalTiles, blockID \in BuilderKinds :
         call' = [fn |-> "_build_block", args |-> <<top, side, blockID>>,
                  result |-> _build_block(top, side, blockID)]
    /\ projected' = (projected \/ HasProjection(call'.result))
    /\ UNCHANGED <<pc, terrain_images, blockmap, biome_textures, specialblockmap,
                   loads, files, raised, currentBiomeFile, currentBiomeData,
                   grasscolor, foliagecolor>>

CallBuildFullBlock ==
    /\ call = None
    /\ \E top \in OptionalTiles, side1 \in OptionalTiles, side2 \in OptionalTiles,
          side3 \in OptionalTiles, side4 \in OptionalTiles, bottom \in OptionalTiles,
          blockID \in {NoBlockID, 44} :
         call' = [fn |-> "_build_full_block",
                  args |-> <<top, side1, side2, side3, side4, bottom, blockID>>,
                  result |-> _build_full_block(top, side1, side2, side3, side4, bottom, blockID)]
    /\ projected' = (projected \/ HasProjection(call'.result))
    /\ UNCHANGED <<pc, terrain_images, blockmap, biome_textures, specialblockmap,
                   loads, files, raised, currentBiomeFile, currentBiomeData,
                   grasscolor, foliagecolor>>

\* raw RGBA images of MaxPixels pixels, and tint colours
RawPixels == {<<0, 0, 0, 0>>, <<255, 255, 255, 255>>, <<200, 100, 50, 128>>,
              <<200, 100, 50, 255>>, <<10, 20, 30, 0>>}

RawImages == {[op |-> "raw", px |-> f] : f \in [1..MaxPixels -> RawPixels]}

TintColours == {<<115, 175, 71>>, <<37, 118, 25>>, <<255, 0, 0>>, <<48, 0, 0>>}

CallTintTexture ==
    /\ call = None
    /\ \E im \in RawImages, c \in TintColours :
         call' = [fn |-> "tintTexture", args |-> <<im, c>>,
                  result |-> tintTexture(im, c), im_after |-> tintTexture_im(im, c)]
    /\ UNCHANGED <<pc, terrain_images, blockmap, biome_textures, specialblockmap,
                   loads, projected, files, raised, currentBiomeFile, currentBiomeData,
                   grasscolor, foliagecolor>>

CallTransformImage ==
    /\ call = None
    /\ \E img \in InputTiles, blockID \in BuilderKinds :
         call' = [fn |-> "transform_image", args |-> <<img, blockID>>,
                  result |-> transform_image(img, blockID)]
    /\ projected' = TRUE
    /\ UNCHANGED <<pc, terrain_images, blockmap, biome_textures, specialblockmap,
                   loads, files, raised, currentBiomeFile, currentBiomeData,
                   grasscolor, foliagecolor>>

CallTransformImageSide ==
    /\ call = None
    /\ \E img \in InputTiles, blockID \in BuilderKinds :
         call' = [fn |-> "transform_image_side", args |-> <<img, blockID>>,
                  result |-> transform_image_side(img, blockID)]
    /\ projected' = TRUE
    /\ UNCHANGED <<pc, terrain_images, blockmap, biome_textures, specialblockmap,
                   loads, files, raised, currentBiomeFile, currentBiomeData,
                   grasscolor, foliagecolor>>

CallTransformImageSlope ==
    /\ call = None
    /\ \E img \in InputTiles, blockID \in BuilderKinds :
         call' = [fn |-> "transform_image_slope", args |-> <<img, blockID>>,
                  result |-> transform_image_slope(img, blockID)]
    /\ projected' = TRUE
    /\ UNCHANGED <<pc, terrain_images, blockmap, biome_textures, specialblockmap,
                   loads, files, raised, currentBiomeFile, currentBiomeData,
                   grasscolor, foliagecolor>>

\* the caller is done with the result of its call; the next call is made
\* from the state the calls started in again: before or after line 116
Return ==
    /\ call # None
    /\ call' = None
    /\ loads' = IF pc = "split_terrain" THEN <<>> ELSE <<Load("terrain.png", FALSE)>>
    /\ projected' = FALSE
    /\ UNCHANGED <<pc, terrain_images, blockmap, biome_textures, specialblockmap,
                   files, raised, currentBiomeFile, currentBiomeData,
                   grasscolor, foliagecolor>>

NextCalls ==
    \/ CallGenerateSpecialTexture
    \/ CallBuildBlock
    \/ CallBuildFullBlock
    \/ CallTintTexture
    \/ CallTransformImage
    \/ CallTransformImageSide
    \/ CallTransformImageSlope
    \/ Return

SpecCalls == InitCalls /\ [][NextCalls]_vars

(***************************************************************************)
(* Pixels.  A pixel of a canvas is named by where its value comes from;    *)
(* the pixels of the images built from a raw image are computed.           *)
(***************************************************************************)
\* img.getpixel(xy) after the first n mutations of a canvas: a putpixel of
\* a getpixel hands on the value its source had just before it, a putpixel
\* of a colour stores the colour, and any other value is named by its place
\* and the number of mutations applied so far
RECURSIVE PixelAfter(_, _, _)
PixelAfter(ops, n, xy) ==
    IF n = 0 THEN [at |-> xy, after |-> 0]
    ELSE IF ops[n].k = "copypixel"
      THEN PixelAfter(ops, n - 1, IF ops[n].at = xy THEN ops[n].from ELSE xy)
    ELSE IF ops[n].k = "putpixel"
      THEN (IF ops[n].at = xy THEN [colour |-> ops[n].fill] ELSE PixelAfter(ops, n - 1, xy))
    ELSE [at |-> xy, after |-> n]

\* img.getpixel(xy) of a finished canvas
getpixel(img, xy) == PixelAfter(img.ops, Len(img.ops), xy)

\* ImageOps.grayscale: the ITU-R 601-2 luma of PIL's "L" conversion
Luma(px) == (px[1] * 19595 + px[2] * 38470 + px[3] * 7471 + 32768) \div 65536

\* ImageOps.colorize: the colour at grey level l on the ramp black..white
Ramp(l, black, white) ==
    << black[1] + (l * (white[1] - black[1])) \div 255,
       black[2] + (l * (white[2] - black[2])) \div 255,
       black[3] + (l * (white[3] - black[3])) \div 255 >>

\* the pixels of an image built from a raw image, each a tuple of its bands
RECURSIVE Pixels(_)
Pixels(img) ==
    IF img.op = "raw" THEN img.px
    ELSE IF img.op = "grayscale"
      THEN [i \in DOMAIN Pixels(img.src) |-> <<Luma(Pixels(img.src)[i])>>]
    ELSE IF img.op = "colorize"
      THEN [i \in DOMAIN Pixels(img.src) |-> Ramp(Pixels(img.src)[i][1], img.black, img.white)]
    ELSE IF img.op = "band"
      THEN [i \in DOMAIN Pixels(img.src) |-> <<Pixels(img.src)[i][img.idx + 1]>>]
    ELSE IF img.op = "putalpha"
      THEN [i \in DOMAIN Pixels(img.src) |->
              SubSeq(Pixels(img.src)[i], 1, 3) \o <<Pixels(img.alpha)[i][1]>>]
    ELSE <<>>

\* the alpha of every pixel; an image without an alpha band is opaque
AlphaChannel(img) ==
    [i \in DOMAIN Pixels(img) |->
        IF Len(Pixels(img)[i]) = 4 THEN Pixels(img)[i][4] ELSE 255]

(***************************************************************************)
(* Specification SpecFiles: _find_file, _load_image and line 116 on every  *)
(* machine of Environments.  The two functions are called from the state   *)
(* before line 116, the state their first call is made in.                 *)
(***************************************************************************)
InitFiles ==
    /\ pc = "split_terrain"
    /\ terrain_images = <<>>
    /\ blockmap = <<>>
    /\ biome_textures = <<>>
    /\ specialblockmap = <<>>
    /\ call = None
    /\ loads = <<>>
    /\ projected = FALSE
    /\ files \in Environments
    /\ raised = None
    /\ currentBiomeFile = None
    /\ currentBiomeData = None
    /\ grasscolor = None
    /\ foliagecolor = None

CallFindFile ==
    /\ call = None
    /\ pc = "split_terrain"
    /\ \E filename \in TextureFiles :
         call' = [fn |-> "_find_file", args |-> <<filename>>,
                  result |-> _find_file(files, filename)]
    /\ UNCHANGED <<pc, terrain_images, blockmap, biome_textures, specialblockmap,
                   loads, projected, files, raised, currentBiomeFile, currentBiomeData,
                   grasscolor, foliagecolor>>

CallLoadImage ==
    /\ call = None
    /\ pc = "split_terrain"
    /\ \E filename \in TextureFiles :
         /\ call' = [fn |-> "_load_image", args |-> <<filename>>,
                     result |-> _load_image_on(files, filename)]
         /\ loads' = Append(loads, Load(filename, projected))
    /\ UNCHANGED <<pc, terrain_images, blockmap, biome_textures, specialblockmap,
                   projected, files, raised, currentBiomeFile, currentBiomeData,
                   grasscolor, foliagecolor>>

NextFiles ==
    \/ SplitTerrain
    \/ CallFindFile
    \/ CallLoadImage
    \/ Return

SpecFiles == InitFiles /\ [][NextFiles]_vars

(***************************************************************************)
(* Specification SpecBiome: getBiomeData (lines 1216-1241) and            *)
(* prepareBiomeData (lines 1191-1214).  The functions read and write no    *)
(* global but currentBiomeFile, currentBiomeData, grasscolor and           *)
(* foliagecolor, so their calls are explored with the other variables at   *)
(* the values the module starts with.                                      *)
(***************************************************************************)
\* a variant that rounds the region towards zero
BiomeFile_truncating(chunkX, chunkY) ==
    [op |-> "b.%d.%d.biome",
     x |-> IF chunkX < 0 THEN -((-chunkX) \div 32) ELSE chunkX \div 32,
     y |-> IF chunkY < 0 THEN -((-chunkY) \div 32) ELSE chunkY \div 32]

\* line 1224: "b.%d.%d.biome" % (chunkX // 32, chunkY // 32); // and \div
\* both round towards minus infinity
BiomeFile(chunkX, chunkY) ==
    [op |-> "b.%d.%d.biome", x |-> chunkX \div 32, y |-> chunkY \div 32]

\* what open() and read() of the biome file do on a cache miss: open raises
\* IOError; the file has not 512*512*2 bytes; or it holds one of the
\* well-sized contents
DiskOutcomes ==
    {[does |-> "IOError"], [does |-> "short"]}
      \cup {[does |-> "read", rawdata |-> c] : c \in 1..MaxContents}

\* a variant that caches nothing when the file cannot be opened
getBiomeData_ioerror_uncached(worlddir, chunkX, chunkY, disk) ==
    IF BiomeFile(chunkX, chunkY) = currentBiomeFile
      THEN [result |-> currentBiomeData, opened |-> <<>>,
            currentBiomeFile |-> currentBiomeFile, currentBiomeData |-> currentBiomeData]
    ELSE IF disk.does \in {"short", "IOError"}
      THEN [result |-> IF disk.does = "short" THEN Raise("Exception") ELSE None,
            opened |-> <<[worlddir |-> worlddir, file |-> BiomeFile(chunkX, chunkY)]>>,
            currentBiomeFile |-> currentBiomeFile, currentBiomeData |-> currentBiomeData]
    ELSE [result |-> [op |-> "frombuffer", rawdata |-> disk.rawdata],
          opened |-> <<[worlddir |-> worlddir, file |-> BiomeFile(chunkX, chunkY)]>>,
          currentBiomeFile |-> BiomeFile(chunkX, chunkY),
          currentBiomeData |-> [op |-> "frombuffer", rawdata |-> disk.rawdata]]

\* a variant that names the region in the cache before it reads the file
getBiomeData_named_before_read(worlddir, chunkX, chunkY, disk) ==
    IF BiomeFile(chunkX, chunkY) = currentBiomeFile
      THEN [result |-> currentBiomeData, opened |-> <<>>,
            currentBiomeFile |-> currentBiomeFile, currentBiomeData |-> currentBiomeData]
    ELSE IF disk.does = "short"
      THEN [result |-> Raise("Exception"),
            opened |-> <<[worlddir |-> worlddir, file |-> BiomeFile(chunkX, chunkY)]>>,
            currentBiomeFile |-> BiomeFile(chunkX, chunkY),
            currentBiomeData |-> currentBiomeData]
    ELSE [result |-> IF disk.does = "IOError" THEN None
                     ELSE [op |-> "frombuffer", rawdata |-> disk.rawdata],
          opened |-> <<[worlddir |-> worlddir, file |-> BiomeFile(chunkX, chunkY)]>>,
          currentBiomeFile |-> BiomeFile(chunkX, chunkY),
          currentBiomeData |-> IF disk.does = "IOError" THEN None
                               ELSE [op |-> "frombuffer", rawdata |-> disk.rawdata]]

\* lines 1222-1241: the value returned or the exception raised, the paths
\* opened, and the two globals after the call
getBiomeData(worlddir, chunkX, chunkY, disk) ==
    IF BiomeFile(chunkX, chunkY) = currentBiomeFile
      THEN [result |-> currentBiomeData, opened |-> <<>>,
            currentBiomeFile |-> currentBiomeFile, currentBiomeData |-> currentBiomeData]
    ELSE IF disk.does = "short"
      THEN [result |-> Raise("Exception"),
            opened |-> <<[worlddir |-> worlddir, file |-> BiomeFile(chunkX, chunkY)]>>,
            currentBiomeFile |-> currentBiomeFile, currentBiomeData |-> currentBiomeData]
    ELSE [result |-> IF disk.does = "IOError" THEN None
                     ELSE [op |-> "frombuffer", rawdata |-> disk.rawdata],
          opened |-> <<[worlddir |-> worlddir, file |-> BiomeFile(chunkX, chunkY)]>>,
          currentBiomeFile |-> BiomeFile(chunkX, chunkY),
          currentBiomeData |-> IF disk.does = "IOError" THEN None
                               ELSE [op |-> "frombuffer", rawdata |-> disk.rawdata]]

ChunkCoords == {-MaxChunk, -1, 0, 31, MaxChunk}

InitBiome ==
    /\ pc = "split_terrain"
    /\ terrain_images = <<>>
    /\ blockmap = <<>>
    /\ biome_textures = <<>>
    /\ specialblockmap = <<>>
    /\ call = None
    /\ loads = <<>>
    /\ projected = FALSE
    /\ files = Installed(256)
    /\ raised = None
    /\ currentBiomeFile = None
    /\ currentBiomeData = None
    /\ grasscolor = None
    /\ foliagecolor = None

CallGetBiomeData ==
    /\ call = None
    /\ \E worlddir \in 1..MaxWorlds, chunkX \in ChunkCoords, chunkY \in ChunkCoords,
          disk \in DiskOutcomes :
         /\ call' = [fn |-> "getBiomeData", args |-> <<worlddir, chunkX, chunkY>>,
                     result |-> getBiomeData(worlddir, chunkX, chunkY, disk).result,
                     opened |-> getBiomeData(worlddir, chunkX, chunkY, disk).opened,
                     disk |-> disk,
                     before |-> [currentBiomeFile |-> currentBiomeFile,
                                 currentBiomeData |-> currentBiomeData]]
         /\ currentBiomeFile' = getBiomeData(worlddir, chunkX, chunkY, disk).currentBiomeFile
         /\ currentBiomeData' = getBiomeData(worlddir, chunkX, chunkY, disk).currentBiomeData
    /\ UNCHANGED <<pc, terrain_images, blockmap, biome_textures, specialblockmap,
                   loads, projected, files, raised, grasscolor, foliagecolor>>

\* list(Image.open(...).getdata()) of a colour file found by _find_file
\* ("found") or read from the biomes directory of the world
Colours(filename, at) == [op |-> "getdata", file |-> filename, at |-> at]

\* a variant whose fallback keeps the one file it could read
prepareBiomeData_partial_fallback(worlddir, biomes, fg, ff, bg, bf) ==
    IF grasscolor # None /\ foliagecolor # None
      THEN [result |-> None, checked |-> FALSE,
            grasscolor |-> grasscolor, foliagecolor |-> foliagecolor]
    ELSE IF ~biomes
      THEN [result |-> Raise("Exception"), checked |-> TRUE,
            grasscolor |-> grasscolor, foliagecolor |-> foliagecolor]
    ELSE IF fg = "ok" /\ ff = "ok"
      THEN [result |-> None, checked |-> TRUE,
            grasscolor |-> Colours("grasscolor.png", "found"),
            foliagecolor |-> Colours("foliagecolor.png", "found")]
    ELSE IF fg = "Exception"
      THEN [result |-> Raise("Exception"), checked |-> TRUE,
            grasscolor |-> grasscolor, foliagecolor |-> foliagecolor]
    ELSE IF fg = "ok" /\ ff = "Exception"
      THEN [result |-> Raise("Exception"), checked |-> TRUE,
            grasscolor |-> Colours("grasscolor.png", "found"), foliagecolor |-> foliagecolor]
    ELSE [result |-> None, checked |-> TRUE,
          grasscolor |-> IF bg = "ok" THEN Colours("grasscolor.png", worlddir) ELSE None,
          foliagecolor |-> IF bg = "ok" /\ bf = "ok"
                             THEN Colours("foliagecolor.png", worlddir) ELSE None]

\* lines 1191-1214.  biomes: the biomes directory of the world exists; fg
\* and ff: what reading grasscolor.png and foliagecolor.png through
\* _find_file does; bg and bf: what reading them from the biomes directory
\* does.  The value returned or the exception raised, whether the directory
\* was looked for, and the two globals after the call.
prepareBiomeData(worlddir, biomes, fg, ff, bg, bf) ==
    IF grasscolor # None /\ foliagecolor # None
      THEN [result |-> None, checked |-> FALSE,
            grasscolor |-> grasscolor, foliagecolor |-> foliagecolor]
    ELSE IF ~biomes
      THEN [result |-> Raise("Exception"), checked |-> TRUE,
            grasscolor |-> grasscolor, foliagecolor |-> foliagecolor]
    ELSE IF fg = "ok" /\ ff = "ok"
      THEN [result |-> None, checked |-> TRUE,
            grasscolor |-> Colours("grasscolor.png", "found"),
            foliagecolor |-> Colours("foliagecolor.png", "found")]
    ELSE IF fg = "Exception"
      THEN [result |-> Raise("Exception"), checked |-> TRUE,
            grasscolor |-> grasscolor, foliagecolor |-> foliagecolor]
    ELSE IF fg = "ok" /\ ff = "Exception"
      THEN [result |-> Raise("Exception"), checked |-> TRUE,
            grasscolor |-> Colours("grasscolor.png", "found"), foliagecolor |-> foliagecolor]
    ELSE [result |-> None, checked |-> TRUE,
          grasscolor |-> IF bg = "ok" /\ bf = "ok"
                           THEN Colours("grasscolor.png", worlddir) ELSE None,
          foliagecolor |-> IF bg = "ok" /\ bf = "ok"
                             THEN Colours("foliagecolor.png", worlddir) ELSE None]

CallPrepareBiomeData ==
    /\ call = None
    /\ \E worlddir \in 1..MaxWorlds, biomes \in BOOLEAN,
          fg \in {"ok", "IOError", "Exception"}, ff \in {"ok", "IOError", "Exception"},
          bg \in {"ok", "IOError"}, bf \in {"ok", "IOError"} :
         /\ call' = [fn |-> "prepareBiomeData", args |-> <<worlddir>>,
                     result |-> prepareBiomeData(worlddir, biomes, fg, ff, bg, bf).result,
                     checked |-> prepareBiomeData(worlddir, biomes, fg, ff, bg, bf).checked,
                     reads |-> [biomes |-> biomes, fg |-> fg, ff |-> ff, bg |-> bg, bf |-> bf],
                     before |-> [grasscolor |-> grasscolor, foliagecolor |-> foliagecolor]]
         /\ grasscolor' = prepareBiomeData(worlddir, biomes, fg, ff, bg, bf).grasscolor
         /\ foliagecolor' = prepareBiomeData(worlddir, biomes, fg, ff, bg, bf).foliagecolor
    /\ UNCHANGED <<pc, terrain_images, blockmap, biome_textures, specialblockmap,
                   loads, projected, files, raised, currentBiomeFile, currentBiomeData>>

NextBiome ==
    \/ CallGetBiomeData
    \/ CallPrepareBiomeData
    \/ Return

SpecBiome == InitBiome /\ [][NextBiome]_vars

(***************************************************************************)
(* Properties of the import (specification Spec).                          *)
(***************************************************************************)
\* C1: after initialization every declared (kind, state) pair has a present
\* (non-None) entry in specialblockmap, and specialblockmap has no key
\* outside the declared pairs.
C1_CacheComplete ==
    pc = "done" =>
        /\ DOMAIN specialblockmap = DeclaredPairs
        /\ \A p \in DeclaredPairs : specialblockmap[p] # None

\* the declared wood state 3 was generated and stored as None
C1_WoodState3Stored ==
    /\ pc = "done"
    /\ <<17, 3>> \in DeclaredPairs
    /\ <<17, 3>> \in DOMAIN specialblockmap
    /\ specialblockmap[<<17, 3>>] = None

\* the image a pair was split from, and the test that a pair is that
\* image's RGB conversion together with its alpha band
IsSpriteAndAlpha(e) ==
    /\ e.op = "pair"
    /\ e.rgb.op = "convert"
    /\ e.rgb.mode = "RGB"
    /\ e.alpha = band(e.rgb.src, 3)

\* C3: after initialization every present entry of blockmap and of
\* specialblockmap is the pair (RGB image of the sprite, alpha band of the
\* same sprite), the water and lava kinds 8, 9, 10, 11 included.
C3_EntriesAreRGBAndAlphaBand ==
    pc = "done" =>
        /\ \A i \in DOMAIN blockmap :
             blockmap[i] # None => IsSpriteAndAlpha(blockmap[i])
        /\ \A p \in DOMAIN specialblockmap :
             specialblockmap[p] # None => IsSpriteAndAlpha(specialblockmap[p])

\* load_water stored, for standing water, a pair whose second element is
\* the whole RGBA sprite
C3_WaterStoresWholeSprite ==
    /\ pc = "done"
    /\ blockmap[9 + 1].op = "pair"
    /\ blockmap[9 + 1].alpha = blockmap[9 + 1].rgb.src
    /\ blockmap[9 + 1].alpha = _build_block(_load_image("water.png"), None, NoBlockID)

\* kind k has no top tile index or no side tile index in the static tables
HasNoTileIndex(k) ==
    \/ k + 1 > Len(topids)
    \/ k + 1 > Len(sideids)
    \/ topids[k + 1] = -1
    \/ sideids[k + 1] = -1

\* C4: once blockmap is built (and after load_water changed it) it has
\* exactly 256 entries, one per kind 0..255; the entry of kind k is None
\* exactly when k has no top or no side tile index in the tables, and is a
\* pair otherwise.
C4_BlockmapTotal ==
    pc \in {"load_water", "biome_textures", "specialblockmap", "done"} =>
        /\ Len(blockmap) = 256
        /\ DOMAIN blockmap = {k + 1 : k \in 0..255}
        /\ \A k \in 0..255 :
             /\ (blockmap[k + 1] = None) <=> HasNoTileIndex(k)
             /\ blockmap[k + 1] # None => blockmap[k + 1].op = "pair"

\* initialization is over with absent entries of each cause (index -1 in
\* one table only, in both, beyond the tables) and present ones
C4_AbsentAndPresentKinds ==
    /\ pc = "done"
    /\ blockmap[55 + 1] = None /\ topids[55 + 1] = -1 /\ sideids[55 + 1] # -1
    /\ blockmap[0 + 1] = None
    /\ blockmap[200 + 1] = None
    /\ blockmap[2 + 1] # None
    /\ blockmap[9 + 1] # None

\* the side of the atlas terrain_images was sliced from
AtlasSide == terrain_images[1].src.size[1]

\* the cell of the atlas at a row and a column, as (left, upper, right, lower)
Cell(row, col, side) ==
    << col * (side \div 16), row * (side \div 16),
       (col + 1) * (side \div 16), (row + 1) * (side \div 16) >>

\* two boxes share no pixel
Disjoint(a, b) == a[3] <= b[1] \/ b[3] <= a[1] \/ a[4] <= b[2] \/ b[4] <= a[2]

\* C11: _split_terrain applied to a square atlas whose side is a multiple of
\* 16 returns exactly 256 tiles of 16x16, the tile at index i being the
\* atlas cell at row i div 16 and column i mod 16, and distinct indices
\* come from distinct cells that do not overlap.
C11_SplitIsRowMajor ==
    (pc = "build_blockimages" /\ AtlasSide % 16 = 0) =>
        /\ Len(terrain_images) = 256
        /\ \A i \in 0..255 :
             /\ terrain_images[i + 1].size = <<16, 16>>
             /\ terrain_images[i + 1].src = terrain_png(AtlasSide)
             /\ terrain_images[i + 1].box = Cell(i \div 16, i % 16, AtlasSide)
        /\ \A i \in 0..255, j \in 0..255 :
             i # j => Disjoint(terrain_images[i + 1].box, terrain_images[j + 1].box)

\* the stock atlas was sliced: tile 17 is the cell of row 1, column 1
C11_StockAtlasSliced ==
    /\ pc = "build_blockimages"
    /\ AtlasSide = 256
    /\ terrain_images[17 + 1].box = <<16, 16, 32, 32>>
    /\ terrain_images[255 + 1].box = <<240, 240, 256, 256>>

\* the entries of the log that loaded one file
LoadsOfFile(filename) == {i \in DOMAIN loads : loads[i].file = filename}

\* C12: during the import every load of the atlas or of an auxiliary
\* texture (water.png, lava.png, fire.png) happens before the first
\* projection is made, and no file is loaded more than once.
C12_LoadsOnceBeforeProjection ==
    /\ \A i \in DOMAIN loads : ~loads[i].projected
    /\ \A i, j \in DOMAIN loads : loads[i].file = loads[j].file => i = j

\* the import ended having loaded water.png for load_water after the cubes
\* of blockmap were projected, and again for each of the 32 water states, and
\* fire.png for each of the 16 fire states
C12_TexturesLoadedLateAndAgain ==
    /\ pc = "done"
    /\ loads[1] = Load("terrain.png", FALSE)
    /\ loads[2] = Load("water.png", TRUE)
    /\ loads[3] = Load("lava.png", TRUE)
    /\ Cardinality(LoadsOfFile("water.png")) = 33
    /\ Cardinality(LoadsOfFile("fire.png")) = 16
    /\ Len(loads) = 51

(***************************************************************************)
(* Properties of the functions (specification SpecCalls).                  *)
(***************************************************************************)
\* the call in progress is a call of fn
Calling(fn) == call # None /\ call.fn = fn

\* C2: for every kind and every state outside the kind's declared states
\* (every state of a kind without a special rule included),
\* generate_special_texture returns None: it neither raises nor returns a
\* sprite.
C2_OutOfDomainIsNone ==
    (Calling("generate_special_texture")
       /\ <<call.args[1], call.args[2]>> \notin DeclaredPairs)
    => call.result = None

\* a torch is asked for in state 0, which is not declared, and the call
\* raises; a sapling is asked for in the undeclared state 7 and gets a sprite
C2_TorchState0Raises ==
    /\ Calling("generate_special_texture")
    /\ call.args = <<50, 0>>
    /\ <<50, 0>> \notin DeclaredPairs
    /\ call.result = Raise("UnboundLocalError")
    /\ generate_special_texture(6, 7).op = "pair"
    /\ <<6, 7>> \notin DeclaredPairs

\* the sources of the layers of a canvas, in the order they were composited
LayerSources(img) == [i \in DOMAIN img.ops |-> img.ops[i].src]

\* the sequence holding x unless the face it was made from is null
Unless(face, x) == IF face = None THEN <<>> ELSE <<x>>

\* C5: _build_full_block layers its non-null faces onto the empty canvas in
\* the order side1, side2, bottom, side3, side4, top; side1 is mirrored and
\* darkened to 0.9, side2 darkened to 0.8 and not mirrored, side3 darkened
\* to 0.9 and not mirrored, side4 mirrored and darkened to 0.8; top is the
\* last layer; a null face adds no layer.
C5_FullBlockLayerOrder ==
    Calling("_build_full_block") =>
        /\ call.result.base = [op |-> "new", size |-> <<24, 24>>]
        /\ \A i \in DOMAIN call.result.ops : call.result.ops[i].k = "alpha_over"
        /\ LayerSources(call.result) =
             Unless(call.args[2],
                    Darken(transpose(transform_image_side(call.args[2], call.args[7]),
                                     "FLIP_LEFT_RIGHT"), 9))
             \o Unless(call.args[3],
                       Darken(transform_image_side(call.args[3], call.args[7]), 8))
             \o Unless(call.args[6], transform_image(call.args[6], call.args[7]))
             \o Unless(call.args[4],
                       Darken(transform_image_side(call.args[4], call.args[7]), 9))
             \o Unless(call.args[5],
                       Darken(transpose(transform_image_side(call.args[5], call.args[7]),
                                        "FLIP_LEFT_RIGHT"), 8))
             \o Unless(call.args[1], transform_image(call.args[1], call.args[7]))

\* a call with all six faces, one with only the bottom and the top, and one
\* with no face at all have returned
C5_AllFacesLayered ==
    /\ Calling("_build_full_block")
    /\ \A i \in 1..6 : call.args[i] # None
    /\ Len(call.result.ops) = 6
    /\ call.result.ops[3].src = transform_image(call.args[6], call.args[7])
    /\ call.result.ops[6].src = transform_image(call.args[1], call.args[7])
    /\ Len(_build_full_block(Tile(0), None, None, None, None, Tile(1), NoBlockID).ops) = 2
    /\ Len(_build_full_block(None, None, None, None, None, None, NoBlockID).ops) = 0

\* C6: every face that _build_block and _build_full_block layer onto the
\* canvas is composited with its own projected image as the mask, the
\* bottom face of _build_full_block included whatever the top argument is.
\* (A mask of None leaves the mask to composite.alpha_over; the statement
\* counts it as the face's own image.)
C6_FacesMaskedByThemselves ==
    (Calling("_build_block") \/ Calling("_build_full_block")) =>
        \A i \in DOMAIN call.result.ops :
            call.result.ops[i].k = "alpha_over" =>
                call.result.ops[i].mask \in {call.result.ops[i].src, None}

\* a bottom face was layered with the unprojected top tile as its mask
C6_BottomMaskedByTopTile ==
    /\ Calling("_build_full_block")
    /\ call.args = <<Tile(0), None, None, None, None, Tile(1), NoBlockID>>
    /\ call.result.ops[1].src = transform_image(Tile(1), NoBlockID)
    /\ call.result.ops[1].mask = Tile(0)
    /\ call.result.ops[1].mask # call.result.ops[1].src

\* the kinds whose two faces are centred and get no touch-up
CentredKinds == {6, 37, 38, 39, 40, 83}

\* the putpixel calls among the mutations of a canvas
Copies(img) == {i \in DOMAIN img.ops : img.ops[i].k = "copypixel"}

\* C7: in every sprite _build_block returns for a present side tile and a
\* kind that is not centred, pixel (13,23) = pixel (12,23), (17,21) =
\* (16,21), (21,19) = (20,19), (3,4) = (4,4), (7,2) = (8,2) and (11,0) =
\* (12,0), and no later copy of the touch-up writes a pixel that an earlier
\* copy read or wrote.
C7_SeamPixelsEqual ==
    (Calling("_build_block") /\ call.args[2] # None /\ call.args[3] \notin CentredKinds) =>
        /\ getpixel(call.result, <<13, 23>>) = getpixel(call.result, <<12, 23>>)
        /\ getpixel(call.result, <<17, 21>>) = getpixel(call.result, <<16, 21>>)
        /\ getpixel(call.result, <<21, 19>>) = getpixel(call.result, <<20, 19>>)
        /\ getpixel(call.result, <<3, 4>>) = getpixel(call.result, <<4, 4>>)
        /\ getpixel(call.result, <<7, 2>>) = getpixel(call.result, <<8, 2>>)
        /\ getpixel(call.result, <<11, 0>>) = getpixel(call.result, <<12, 0>>)
        /\ \A i \in Copies(call.result), j \in Copies(call.result) :
             i < j => call.result.ops[j].at \notin {call.result.ops[i].at, call.result.ops[i].from}

\* a two-side cube came back with its six copies made after the three layers
C7_TouchedUpCube ==
    /\ Calling("_build_block")
    /\ call.args[2] # None
    /\ call.args[3] = 44
    /\ Cardinality(Copies(call.result)) = 6
    /\ Copies(call.result) = 4..9
    /\ getpixel(call.result, <<13, 23>>) = [at |-> <<12, 23>>, after |-> 3]

\* C8: in _build_block with a side tile present, for every kind, the right
\* face is the horizontal mirror of the projected left face taken before any
\* brightness change, the left face is then darkened to 0.9 and the right
\* face to 0.8, and both come from the one projection of the side tile.
C8_RightFaceMirrorsLeft ==
    (Calling("_build_block") /\ call.args[2] # None) =>
        /\ call.result.ops[1].src =
             putalpha(Brightness(transform_image_side(call.args[2], call.args[3]), 9),
                      band(transform_image_side(call.args[2], call.args[3]), 3))
        /\ call.result.ops[2].src =
             putalpha(Brightness(transpose(transform_image_side(call.args[2], call.args[3]),
                                           "FLIP_LEFT_RIGHT"), 8),
                      band(transpose(transform_image_side(call.args[2], call.args[3]),
                                     "FLIP_LEFT_RIGHT"), 3))

\* a cube and a centred sprite were built from a side tile
C8_TwoFacesBuilt ==
    /\ Calling("_build_block")
    /\ call.args[2] # None
    /\ call.args[3] = 1
    /\ call.result.ops[2].src.src.src.op = "transpose"
    /\ call.result.ops[2].src.src.src.src.op = "affine"
    /\ Len(_build_block(Tile(0), Tile(1), 6).ops) = 2

\* the image is a projected side face, mirrored or not
IsProjectedSide(x) ==
    \/ (x.op = "affine" /\ x.matrix = "shear")
    \/ (x.op = "transpose" /\ x.src.op = "affine" /\ x.src.matrix = "shear")

\* the image is a side face darkened to 0.8 or 0.9 with its own alpha put back
IsDarkenedSide(x) ==
    /\ x.op = "putalpha"
    /\ x.src.op = "brightness"
    /\ x.src.tenths \in {8, 9}
    /\ IsProjectedSide(x.src.src)
    /\ x.alpha = band(x.src.src, 3)

\* the layer is a side face, darkened or not
IsSideLayer(x) ==
    \/ IsProjectedSide(x)
    \/ (x.op = "putalpha" /\ x.src.op = "brightness" /\ IsProjectedSide(x.src.src))

\* the canvas of what a call returned: the image of a builder, the image a
\* generator's pair was split from
ReturnedCanvas ==
    IF call.fn = "generate_special_texture" THEN call.result.rgb.src ELSE call.result

\* the call returned an image
ReturnedImage ==
    /\ call # None
    /\ call.fn \in {"_build_block", "_build_full_block", "generate_special_texture"}
    /\ call.fn = "generate_special_texture" => call.result.op = "pair"
    /\ ReturnedCanvas.op = "canvas"

\* C9: every side face layered into a sprite of the builders or of
\* generate_special_texture was darkened to 0.9 or 0.8 and had its alpha
\* channel put back unchanged, the hand-assembled cubes of the dispenser
\* (23), the furnaces (61, 62) and the pumpkins (86, 91) included.
C9_SideFacesDarkened ==
    ReturnedImage =>
        \A i \in DOMAIN ReturnedCanvas.ops :
            (ReturnedCanvas.ops[i].k = "alpha_over" /\ IsSideLayer(ReturnedCanvas.ops[i].src))
            => IsDarkenedSide(ReturnedCanvas.ops[i].src)

\* the dispenser came back with both its side faces layered as projected
C9_DispenserNotDarkened ==
    /\ Calling("generate_special_texture")
    /\ call.args = <<23, 0>>
    /\ ReturnedCanvas.ops[1].src = transform_image_side(Tile(46), NoBlockID)
    /\ ReturnedCanvas.ops[2].src =
         transpose(transform_image_side(Tile(45), NoBlockID), "FLIP_LEFT_RIGHT")
    /\ ~IsDarkenedSide(ReturnedCanvas.ops[1].src)
    /\ ~IsDarkenedSide(ReturnedCanvas.ops[2].src)

\* C10: for every RGBA image t and colour c, the alpha channel of
\* tintTexture(t, c) equals the alpha channel of t at every pixel, and t is
\* left unmodified.
C10_TintKeepsAlpha ==
    Calling("tintTexture") =>
        /\ AlphaChannel(call.result) = AlphaChannel(call.args[1])
        /\ call.im_after = call.args[1]

\* an image with a transparent and a half-transparent pixel was tinted and
\* its colours changed
C10_TintedTranslucent ==
    /\ Calling("tintTexture")
    /\ AlphaChannel(call.args[1]) = <<0, 128>>
    /\ call.args[2] = <<115, 175, 71>>
    /\ Pixels(call.result)[1][4] = 0
    /\ Pixels(call.result)[2][4] = 128
    /\ Pixels(call.result) # Pixels(call.args[1])

\* the tile the sapling states are said to select
SaplingTileOfState(data) == IF data = 1 THEN 63 ELSE IF data = 2 THEN 79 ELSE 15

\* C17: for saplings (kind 6) state 1 builds the sprite from atlas tile 63,
\* state 2 from tile 79 and every other state from tile 15; the tile chosen
\* for one state is never replaced by the tile of another branch.
C17_SaplingStateSelectsTile ==
    (Calling("generate_special_texture") /\ call.args[1] = 6) =>
        call.result =
            SpritePair(_build_block(Tile(SaplingTileOfState(call.args[2])),
                                    Tile(SaplingTileOfState(call.args[2])), 6))

\* the spruce sapling (state 1, declared in special_map[6]) came back built
\* from tile 15, the tile of the usual sapling
C17_SpruceBuiltFromUsualTile ==
    /\ Calling("generate_special_texture")
    /\ call.args = <<6, 1>>
    /\ <<6, 1>> \in DeclaredPairs
    /\ call.result = SpritePair(_build_block(Tile(15), Tile(15), 6))
    /\ call.result # SpritePair(_build_block(Tile(63), Tile(63), 6))

\* C18: for every tile and kind, transform_image returns an image of 24x12,
\* transform_image_side one of 12x18 and transform_image_slope one of 24x24;
\* transform_image resizes the tile to 15x15 for kinds 81 and 92 and to
\* 17x17 for every other kind and for no kind.
C18_ProjectionSizes ==
    /\ Calling("transform_image") =>
         /\ call.result.size = <<24, 12>>
         /\ call.result.src.op = "resize"
         /\ call.result.src.src = call.args[1]
         /\ call.result.src.size =
              IF call.args[2] \in {81, 92} THEN <<15, 15>> ELSE <<17, 17>>
    /\ Calling("transform_image_side") => call.result.size = <<12, 18>>
    /\ Calling("transform_image_slope") => call.result.size = <<24, 24>>

\* the top of the cake was projected, and so were a tile of no kind, a
\* masked half-step side and a slope
C18_CakeTopProjected ==
    /\ Calling("transform_image")
    /\ call.args[2] = 92
    /\ call.result.src.size = <<15, 15>>
    /\ transform_image(Tile(0), NoBlockID).src.size = <<17, 17>>
    /\ transform_image_side(Tile(0), 44).src.src.op = "canvas"
    /\ transform_image_slope(Tile(0), NoBlockID).op = "affine"

\* C19: when _build_block is called with the side tile absent, the returned
\* 24x24 sprite holds only the projected top face composited at (0,0): no
\* side face is layered and none of the six seam copies is made, for every
\* kind.
C19_TopOnlyWithoutSide ==
    (Calling("_build_block") /\ call.args[2] = None) =>
        /\ call.result.base = [op |-> "new", size |-> <<24, 24>>]
        /\ Len(call.result.ops) = 1
        /\ call.result.ops[1].k = "alpha_over"
        /\ call.result.ops[1].src = transform_image(call.args[1], call.args[3])
        /\ call.result.ops[1].pos = <<0, 0>>
        /\ Copies(call.result) = {}

\* a half-step was built without a side tile, as load_water builds
\* standing water
C19_BuiltWithoutSide ==
    /\ Calling("_build_block")
    /\ call.args[2] = None
    /\ call.args[3] = 44
    /\ call.result.ops[1].src.op = "affine"
    /\ load_water(_build_blockimages)[9 + 1].alpha.ops[1].src =
         transform_image(_load_image("water.png"), NoBlockID)

\* the image an untouched copy was made of
Uncopied(img) == IF img.op = "canvas" /\ img.ops = <<>> THEN img.base ELSE img

\* the last layer of the stored wire sprite: sides 3 and 4 and the top are
\* absent, so it is the projected bottom face
WireBottomLayer(data) ==
    specialblockmap[<<55, data>>].rgb.src.ops[Len(specialblockmap[<<55, data>>].rgb.src.ops)]

\* the bottom texture handed to _build_full_block
WireBottomFace(data) == WireBottomLayer(data).src.src.src

\* C15: for redstone wire (kind 55) with bit 64 clear, a state whose low four
\* bits are 1010 has as its bottom face atlas tile 165 tinted (48,0,0) and
\* not rotated, a state whose low four bits are 0101 that tile rotated by 90
\* degrees, and the state whose low six bits are zero the tinted cross tile
\* 164.
C15_WireBottomFace ==
    pc = "done" =>
      \A data \in 0..63 :
        /\ WireBottomLayer(data).pos = <<0, 12>>
        /\ WireBottomLayer(data).src = transform_image(WireBottomFace(data), NoBlockID)
        /\ data % 16 = 10 =>
             Uncopied(WireBottomFace(data)) = tintTexture(Tile(165), <<48, 0, 0>>)
        /\ data % 16 = 5 =>
             /\ WireBottomFace(data).op = "rotate"
             /\ WireBottomFace(data).angle = 90
             /\ Uncopied(WireBottomFace(data).src) = tintTexture(Tile(165), <<48, 0, 0>>)
        /\ data % 64 = 0 =>
             Uncopied(WireBottomFace(data)) = tintTexture(Tile(164), <<48, 0, 0>>)

\* the wires of the x and of the y direction and the lone wire are stored,
\* with and without a wire going up a side
C15_StraightWiresStored ==
    /\ pc = "done"
    /\ {<<55, 0>>, <<55, 5>>, <<55, 10>>, <<55, 26>>, <<55, 37>>} \subseteq DOMAIN specialblockmap
    /\ WireBottomFace(10).op = "canvas"
    /\ WireBottomFace(5).op = "rotate"
    /\ WireBottomFace(0).base.src.src.src = Tile(164)
    /\ Len(specialblockmap[<<55, 26>>].rgb.src.ops) = 2

\* every image a term is built from, the term itself included
RECURSIVE Parts(_), LayerParts(_)
Parts(x) ==
    {x} \cup
      (IF x.op = "canvas"
         THEN Parts(x.base) \cup UNION {LayerParts(x.ops[i]) : i \in DOMAIN x.ops}
       ELSE IF x.op = "pair" THEN Parts(x.rgb) \cup Parts(x.alpha)
       ELSE IF x.op = "putalpha" THEN Parts(x.src) \cup Parts(x.alpha)
       ELSE IF "src" \in DOMAIN x THEN Parts(x.src)
       ELSE {})

LayerParts(m) == IF m.k = "alpha_over" THEN Parts(m.src) \cup Parts(m.mask) ELSE {}

\* the atlas tiles a term is built from
TilesOf(x) == {p \in Parts(x) : p.op = "extent"}

\* the top face of a sprite stored by a generator that calls _build_block
\* with a side tile: the third layer of its canvas, after the two sides
StoredTopFace(blockID, data) == specialblockmap[<<blockID, data>>].rgb.src.ops[3]

\* C16 (as stated): the sprite stored for wool (35, 0) is built with atlas
\* tile 35 as its top and side tile, so its top face depends on tile 35 only.
C16_WhiteWoolFromTile35 ==
    pc = "done" =>
      /\ specialblockmap[<<35, 0>>] = SpritePair(_build_block(Tile(35), Tile(35), 35))
      /\ TilesOf(StoredTopFace(35, 0).src) = {Tile(35)}

\* C16 (amended): the sprite stored for wool (35, 0) is built with atlas
\* tile 64 as its top and side tile; its top face is the projection of tile
\* 64 composited at (0,0) and is built from no other atlas tile, so it is
\* uniformly white and opaque when tile 64 is.
C16_WhiteWoolFromTile64 ==
    pc = "done" =>
      /\ specialblockmap[<<35, 0>>] = SpritePair(_build_block(Tile(64), Tile(64), 35))
      /\ StoredTopFace(35, 0).src = transform_image(Tile(64), 35)
      /\ StoredTopFace(35, 0).pos = <<0, 0>>
      /\ TilesOf(StoredTopFace(35, 0).src) = {Tile(64)}
      /\ TilesOf(specialblockmap[<<35, 0>>]) = {Tile(64)}

\* white wool is stored, and tile 35 is not the tile it was built from
C16_WhiteWoolStored ==
    /\ pc = "done"
    /\ <<35, 0>> \in DOMAIN specialblockmap
    /\ Tile(35) \notin TilesOf(specialblockmap[<<35, 0>>])
    /\ Tile(35) # Tile(64)
    /\ StoredTopFace(35, 0).k = "alpha_over"

\* the images mutated in place in building a term: the objects drawn on
\* that were neither created empty nor copied first
RECURSIVE InPlace(_), LayerInPlace(_)
InPlace(x) ==
    IF x.op = "canvas"
      THEN (IF "inplace" \in DOMAIN x THEN {x.base} ELSE {})
             \cup InPlace(x.base) \cup UNION {LayerInPlace(x.ops[i]) : i \in DOMAIN x.ops}
    ELSE IF x.op = "pair" THEN InPlace(x.rgb) \cup InPlace(x.alpha)
    ELSE IF x.op = "putalpha" THEN InPlace(x.src) \cup InPlace(x.alpha)
    ELSE IF "src" \in DOMAIN x THEN InPlace(x.src)
    ELSE {}

LayerInPlace(m) == IF m.k = "alpha_over" THEN InPlace(m.src) \cup InPlace(m.mask) ELSE {}

\* the objects the module keeps: the tiles and the stored entries
Range(f) == {f[i] : i \in DOMAIN f}

Kept == Range(terrain_images) \cup Range(blockmap) \cup Range(specialblockmap)
          \cup UNION {{e.rgb, e.alpha} : e \in {s \in Range(blockmap) \cup Range(specialblockmap) : s.op = "pair"}}

\* the pairs of the fill loops in the opposite order
Reversed(pairs) == [j \in 1..Len(pairs) |-> pairs[Len(pairs) + 1 - j]]

\* C14: no image built by generate_special_texture, _build_block or
\* _build_full_block during the import was drawn on in place where the
\* object drawn on is a tile of terrain_images or an entry of blockmap or
\* specialblockmap: every drawing call acts on an image created empty or on
\* a copy.  Filling specialblockmap over the declared pairs in the opposite
\* order therefore yields the same mapping.
C14_KeptImagesNotMutated ==
    pc = "done" =>
      /\ \A e \in Range(specialblockmap) \cup Range(blockmap) \cup Range(biome_textures) :
           \A drawn \in InPlace(e) : drawn \notin Kept
      /\ Filled(Reversed(LoopOrder(KindOrder)), Len(LoopOrder(KindOrder))) = specialblockmap

\* the stairs were stored, built from blanked copies of their tile, and the
\* loops ran over more than one pair
C14_BlankedCopiesStored ==
    /\ pc = "done"
    /\ <<53, 0>> \in DOMAIN specialblockmap
    /\ \E p \in Parts(specialblockmap[<<53, 0>>]) :
         /\ p.op = "canvas"
         /\ p.base = Tile(4)
         /\ Len(p.ops) = 1
         /\ p.ops[1].k = "rectangle"
    /\ Reversed(LoopOrder(KindOrder)) # LoopOrder(KindOrder)
    /\ Reversed(LoopOrder(KindOrder))[1] = <<92, 5>>

\* the file is in none of the locations _find_file searches on this machine
FoundNowhere(env) ==
    /\ env.programdir = "absent"
    /\ env.darwin => env.applications = "absent"
    /\ \A i \in DOMAIN jarpaths(env) : jarpaths(env)[i].does # "has"
    /\ env.cwd = "absent"
    /\ env.textures = "absent"

\* C13: when the file is in none of the searched locations _find_file
\* raises an IOError that names it, and _load_image and line 116 let that
\* error through; when the file is in some location a handle is returned:
\* a candidate archive that fails to open never ends the search.
C13_MissingFileRaisesNamedIOError ==
    /\ Calling("_find_file") =>
         IF FoundNowhere(files)
           THEN call.result = [op |-> "raise", exc |-> "IOError", names |-> call.args[1]]
           ELSE call.result.op = "handle"
    /\ Calling("_load_image") =>
         IF FoundNowhere(files)
           THEN call.result = [op |-> "raise", exc |-> "IOError", names |-> call.args[1]]
           ELSE call.result.op = "file"
    /\ (pc # "split_terrain" /\ FoundNowhere(files)) =>
         (pc = "failed" /\ raised = [op |-> "raise", exc |-> "IOError", names |-> "terrain.png"])
    /\ (pc # "split_terrain" /\ ~FoundNowhere(files)) => pc = "build_blockimages"

\* the file is in the working directory, the minecraft.jar under $HOME is
\* no archive, and the search ended there with BadZipfile
C13_CorruptJarEndsSearch ==
    /\ Calling("_find_file")
    /\ files.programdir = "absent"
    /\ files.home
    /\ files.library_jar = "absent"
    /\ files.home_jar = "BadZipfile"
    /\ files.cwd = "file"
    /\ ~FoundNowhere(files)
    /\ call.result = Raise("BadZipfile")

\* the region of a chunk coordinate: the r with 32*r <= c < 32*r + 32
RegionOf(c) == CHOOSE r \in -(MaxChunk + 32)..(MaxChunk + 32) : 32 * r <= c /\ c < 32 * r + 32

\* C20: after a getBiomeData call that returned normally, currentBiomeFile
\* names the region (chunkX div 32, chunkY div 32, rounded down) of that call
\* and currentBiomeData is the value it returned; a call for the region the
\* cache already names returns the cached data, opens no file and leaves the
\* cache alone; a call for another region opens the one file of that region
\* in the given world and replaces the cached entry.
C20_SingleEntryCache ==
    (Calling("getBiomeData") /\ call.result.op # "raise") =>
        /\ currentBiomeFile.x = RegionOf(call.args[2])
        /\ currentBiomeFile.y = RegionOf(call.args[3])
        /\ currentBiomeData = call.result
        /\ IF call.before.currentBiomeFile = currentBiomeFile
             THEN /\ call.result = call.before.currentBiomeData
                  /\ call.opened = <<>>
             ELSE /\ Len(call.opened) = 1
                  /\ call.opened[1].worlddir = call.args[1]
                  /\ call.opened[1].file = currentBiomeFile

\* a call for a chunk of negative coordinates found region (-1,-1) cached
\* and returned its data; the cache then holds that region still, with data
\* that came from a file
C20_CachedRegionReturned ==
    /\ Calling("getBiomeData")
    /\ call.args[2] = -1
    /\ call.args[3] = -MaxChunk
    /\ call.before.currentBiomeFile = BiomeFile(-1, -1)
    /\ call.opened = <<>>
    /\ call.result.op = "frombuffer"
    /\ currentBiomeData = call.result

\* the call found its region named by the cache
CacheHit == call.before.currentBiomeFile = BiomeFile(call.args[2], call.args[3])

\* C21: when the biome file of the requested region cannot be opened
\* (IOError), getBiomeData returns None and caches the region with None;
\* a following call for the region the cache names with None returns None
\* and opens no file, and the entry stays until a call for another region.
C21_MissingFileCachedAsNone ==
    Calling("getBiomeData") =>
        /\ (~CacheHit /\ call.disk.does = "IOError") =>
             /\ call.result = None
             /\ currentBiomeFile = BiomeFile(call.args[2], call.args[3])
             /\ currentBiomeData = None
        /\ (CacheHit /\ call.before.currentBiomeData = None) =>
             /\ call.result = None
             /\ call.opened = <<>>
             /\ currentBiomeFile = call.before.currentBiomeFile
             /\ currentBiomeData = None

\* a region was cached with None after an IOError, and the next call for it,
\* made when the file had come into being, returned None without opening it
C21_NoneServedFromCache ==
    /\ Calling("getBiomeData")
    /\ CacheHit
    /\ call.before.currentBiomeData = None
    /\ call.disk.does = "read"
    /\ call.result = None
    /\ call.opened = <<>>

\* C22: when the biome file of the requested region has not 512*512*2
\* bytes, getBiomeData raises an exception and leaves currentBiomeFile and
\* currentBiomeData as they were, so the invalid region is not cached and
\* the region cached before is still the one served.
C22_InvalidFileLeavesCache ==
    (Calling("getBiomeData") /\ ~CacheHit /\ call.disk.does = "short") =>
        /\ call.result = Raise("Exception")
        /\ currentBiomeFile = call.before.currentBiomeFile
        /\ currentBiomeData = call.before.currentBiomeData
        /\ currentBiomeFile # BiomeFile(call.args[2], call.args[3])

\* with the data of a region cached, a call for another region met a file
\* of the wrong size and raised, and the cache holds the first region still
C22_RaisedWithRegionCached ==
    /\ Calling("getBiomeData")
    /\ ~CacheHit
    /\ call.disk.does = "short"
    /\ call.result.op = "raise"
    /\ call.before.currentBiomeData.op = "frombuffer"
    /\ currentBiomeFile = BiomeFile(0, 0)
    /\ call.args[2] = -1

\* C23: whenever a prepareBiomeData call returns normally, grasscolor and
\* foliagecolor are both loaded or both None; a call made with both loaded
\* returns without changing them and without looking for the biomes
\* directory.
C23_ColoursBothOrNeither ==
    (Calling("prepareBiomeData") /\ call.result.op # "raise") =>
        /\ (grasscolor = None) <=> (foliagecolor = None)
        /\ (call.before.grasscolor # None /\ call.before.foliagecolor # None) =>
             /\ grasscolor = call.before.grasscolor
             /\ foliagecolor = call.before.foliagecolor
             /\ ~call.checked

\* a call fell back to the biomes directory, read grasscolor.png there,
\* failed to read foliagecolor.png, and returned with both colours None
C23_FallbackCleared ==
    /\ Calling("prepareBiomeData")
    /\ call.reads = [biomes |-> TRUE, fg |-> "ok", ff |-> "IOError",
                     bg |-> "ok", bf |-> "IOError"]
    /\ call.result = None
    /\ grasscolor = None
    /\ foliagecolor = None

\* ---- doors (kinds 64 and 71) ----

DoorKinds == {64, 71}

DoorStates == 0 .. 15

\* the canvas of the sprite stored for a door state
DoorCanvas(blockID, data) == specialblockmap[<<blockID, data>>].rgb.src

\* x with a left-right mirroring taken off, if it has one
Unflipped(x) == IF x.op = "transpose" THEN x.src ELSE x

\* the layers of a canvas that hold a side projection (the shear of line 180),
\* mirrored or not
ProjectedFaces(canvas) ==
    {i \in DOMAIN canvas.ops :
        /\ canvas.ops[i].k = "alpha_over"
        /\ Unflipped(canvas.ops[i].src).op = "affine"
        /\ Unflipped(canvas.ops[i].src).matrix = "shear"}

\* the 16x16 image that the projection of a door face was made from
DoorFaceInput(blockID, data) == Unflipped(DoorCanvas(blockID, data).ops[1].src).src.src

\* the (anchor, mirroring) rule read off the stored sprite
DoorRuleUsed(blockID, data) ==
    [pos      |-> DoorCanvas(blockID, data).ops[1].pos,
     flipFace |-> DoorCanvas(blockID, data).ops[1].src.op = "transpose",
     flipTile |-> DoorFaceInput(blockID, data).op = "transpose"]

\* the atlas tile of a door half: 81/82 top, 97/98 bottom
DoorHalfTile(blockID, top) ==
    IF blockID = 64 THEN (IF top THEN 81 ELSE 97) ELSE (IF top THEN 82 ELSE 98)

\* C24: for kinds 64 and 71 and every state 0..15 the stored sprite is an
\* empty 24x24 canvas with exactly one layer, a side projection of a door
\* tile; bit 0x8 alone selects the tile (81/97 wood, 82/98 iron); the
\* (anchor, mirroring) rule is the same for both kinds and both halves, so it
\* is determined by state & 0x7, and the eight values of state & 0x7 select
\* eight different rules.
C24_OneDoorFacePerState ==
    pc = "done" =>
      /\ \A blockID \in DoorKinds, data \in DoorStates :
           /\ DoorCanvas(blockID, data).base = [op |-> "new", size |-> <<24, 24>>]
           /\ Len(DoorCanvas(blockID, data).ops) = 1
           /\ ProjectedFaces(DoorCanvas(blockID, data)) = {1}
           /\ Unflipped(DoorFaceInput(blockID, data))
                = Tile(DoorHalfTile(blockID, HasBit(data, 8)))
      /\ \A b1 \in DoorKinds, b2 \in DoorKinds, d1 \in DoorStates, d2 \in DoorStates :
           (d1 % 8 = d2 % 8) <=> (DoorRuleUsed(b1, d1) = DoorRuleUsed(b2, d2))

\* C24 witness: the import has finished and the sprites of a closed bottom
\* half and an open top half of both door kinds are stored
C24_DoorsStored ==
    /\ pc = "done"
    /\ \A blockID \in DoorKinds :
         /\ <<blockID, 0>> \in DOMAIN specialblockmap
         /\ <<blockID, 15>> \in DOMAIN specialblockmap
         /\ DoorRuleUsed(blockID, 0) # DoorRuleUsed(blockID, 15)

\* ---- rails (kinds 27, 28 and 66) ----

RailKinds == {27, 28, 66}

\* the orientation of a rail state: the powered rail drops bit 0x8
OrientationOf(blockID, data) == IF blockID = 27 THEN data % 8 ELSE data

\* the tile a rail orientation is drawn from: the corner tile 112 for the
\* four curves, else the straight tile of the kind (and, for the powered
\* rail, of bit 0x8)
RailTileOf(blockID, data) ==
    IF OrientationOf(blockID, data) \in {6, 7, 8, 9} THEN 112
    ELSE IF blockID = 27 THEN (IF HasBit(data, 8) THEN 179 ELSE 163)
    ELSE IF blockID = 28 THEN 195
    ELSE 128

\* where the one track layer of an orientation is composited
RailAnchorOf(orientation) ==
    IF orientation = 2 THEN <<2, 0>> ELSE IF orientation = 4 THEN <<0, 0>> ELSE <<0, 12>>

\* C25: generate_special_texture returns a sprite for every state of kinds
\* 27, 28 and 66 and raises for none. Orientations 3 and 5 give an empty
\* 24x24 canvas with one line drawn on it and no tile in it; every other
\* orientation gives an empty canvas with one layer, a projection of one
\* tile. For kind 27 the orientation is state & 0x7 and bit 0x8 only picks
\* the straight tile, 179 when set and 163 when clear.
C25_RailSlopesDrawnAsLine ==
    (Calling("generate_special_texture") /\ call.args[1] \in RailKinds) =>
      /\ call.result # None
      /\ call.result.op = "pair"
      /\ ReturnedCanvas.op = "canvas"
      /\ ReturnedCanvas.base = [op |-> "new", size |-> <<24, 24>>]
      /\ Len(ReturnedCanvas.ops) = 1
      /\ IF OrientationOf(call.args[1], call.args[2]) \in {3, 5}
           THEN /\ ReturnedCanvas.ops[1].k = "line"
                /\ ~HasProjection(ReturnedCanvas)
                /\ TilesOf(ReturnedCanvas) = {}
           ELSE /\ ReturnedCanvas.ops[1].k = "alpha_over"
                /\ HasProjection(ReturnedCanvas.ops[1].src)
                /\ ReturnedCanvas.ops[1].pos
                     = RailAnchorOf(OrientationOf(call.args[1], call.args[2]))
                /\ TilesOf(ReturnedCanvas)
                     = {Tile(RailTileOf(call.args[1], call.args[2]))}

\* C25 witness: a powered rail in a powered slope state (11 or 13, whose
\* orientation is 3 or 5) returned a sprite that is one line
C25_PoweredSlopeReturned ==
    /\ Calling("generate_special_texture")
    /\ call.args[1] = 27
    /\ call.args[2] \in {11, 13}
    /\ call.result.op = "pair"
    /\ ReturnedCanvas.ops[1].k = "line"

\* ---- torches (kinds 50, 75 and 76) ----

TorchKinds == {50, 75, 76}

\* the canvas of the sprite stored for a torch state
TorchCanvas(blockID, data) == specialblockmap[<<blockID, data>>].rgb.src

\* the side argument of _build_full_block that a layer of its canvas comes
\* from, told by the anchor, the mirroring and the darkening of lines
\* 285-331; "none" for a layer that is no side face
FullBlockSide(m) ==
    IF /\ m.k = "alpha_over"
       /\ m.src.op = "putalpha"
       /\ m.src.src.op = "brightness"
       /\ IsProjectedSide(m.src.src.src)
      THEN LET mirrored == m.src.src.src.op = "transpose"
               tenths   == m.src.src.tenths
           IN  IF m.pos = <<0, 0>> /\ mirrored /\ tenths = 9 THEN "side1"
               ELSE IF m.pos = <<12, 0>> /\ ~mirrored /\ tenths = 8 THEN "side2"
               ELSE IF m.pos = <<0, 6>> /\ ~mirrored /\ tenths = 9 THEN "side3"
               ELSE IF m.pos = <<12, 6>> /\ mirrored /\ tenths = 8 THEN "side4"
               ELSE "none"
    ELSE "none"

\* the image handed to _build_full_block as the side of a side-face layer
SideArgument(m) == Unflipped(m.src.src.src).src.src

\* the side each wall state is placed on
TorchSideOf(data) ==
    IF data = 1 THEN "side3" ELSE IF data = 2 THEN "side2"
    ELSE IF data = 3 THEN "side1" ELSE "side4"

\* C26: for kinds 50, 75 and 76 and wall states 1..4 the stored sprite is
\* the canvas of the full builder with exactly one layer, a side face and
\* no top or bottom: side3 for state 1, side2 for 2, side1 for 3, side4 for
\* 4; the face is the stick rotated by -15 degrees for states 1 and 4 and by
\* +15 degrees for states 2 and 3. The sprite of state 5 holds no projected
\* face, so it is not made by the full builder.
C26_WallTorchOnOneSide ==
    pc = "done" =>
      \A blockID \in TorchKinds :
        /\ \A data \in 1 .. 4 :
             /\ TorchCanvas(blockID, data).base = [op |-> "new", size |-> <<24, 24>>]
             /\ Len(TorchCanvas(blockID, data).ops) = 1
             /\ FullBlockSide(TorchCanvas(blockID, data).ops[1]) = TorchSideOf(data)
             /\ SideArgument(TorchCanvas(blockID, data).ops[1]).op = "rotate"
             /\ SideArgument(TorchCanvas(blockID, data).ops[1]).angle
                  = (IF data \in {1, 4} THEN -15 ELSE 15)
        /\ ~HasProjection(TorchCanvas(blockID, 5))
        /\ \A i \in DOMAIN TorchCanvas(blockID, 5).ops :
             FullBlockSide(TorchCanvas(blockID, 5).ops[i]) = "none"

\* C26 witness: the import has finished and the four wall states of the
\* torch are stored on four different sides
C26_WallTorchesStored ==
    /\ pc = "done"
    /\ \A data \in 1 .. 5 : <<50, data>> \in DOMAIN specialblockmap
    /\ \A d1 \in 1 .. 4, d2 \in 1 .. 4 :
         d1 # d2 => FullBlockSide(TorchCanvas(50, d1).ops[1])
                      # FullBlockSide(TorchCanvas(50, d2).ops[1])

\* ---- fences (kind 85) ----

\* the states special_map declares for the fence: 0..16
FenceStates == {special_map(85)[i] : i \in DOMAIN special_map(85)}

\* the canvas of the sprite stored for a fence state
FenceCanvas(data) == specialblockmap[<<85, data>>].rgb.src

\* what a layer of the fence canvas is: the post (itself a canvas of three
\* faces) or one of the four stubs, told by its anchor and mirroring
FenceLayer(m) ==
    IF m.k # "alpha_over" THEN "none"
    ELSE IF m.src.op = "canvas" THEN (IF m.pos = <<0, 0>> THEN "post" ELSE "none")
    ELSE IF m.src.op = "putalpha" /\ IsProjectedSide(m.src.src.src)
      THEN LET mirrored == m.src.src.src.op = "transpose"
           IN  IF m.pos = <<-2, 0>> /\ ~mirrored THEN "top-left"
               ELSE IF m.pos = <<14, 0>> /\ mirrored THEN "top-right"
               ELSE IF m.pos = <<6, 4>> /\ mirrored THEN "bottom-left"
               ELSE IF m.pos = <<6, 4>> /\ ~mirrored THEN "bottom-right"
               ELSE "none"
    ELSE "none"

\* the layers of the stored fence sprite, in the order they were composited
FenceLayers(data) ==
    [i \in DOMAIN FenceCanvas(data).ops |-> FenceLayer(FenceCanvas(data).ops[i])]

\* the parts the state asks for, in the fixed order: back stubs, post,
\* front stubs
FenceOrder(data) ==
    (IF HasBit(data, 1) THEN <<"top-left">> ELSE <<>>)
      \o (IF HasBit(data, 8) THEN <<"top-right">> ELSE <<>>)
      \o <<"post">>
      \o (IF HasBit(data, 2) THEN <<"bottom-left">> ELSE <<>>)
      \o (IF HasBit(data, 4) THEN <<"bottom-right">> ELSE <<>>)

\* C27: the sprite stored for every declared fence state is an empty 24x24
\* canvas layered in the fixed order top-left stub (bit 1), top-right stub
\* (bit 8), post, bottom-left stub (bit 2), bottom-right stub (bit 4), the
\* post always and each stub exactly when its bit is set; two states with
\* the same low four bits have the same sprite, so state 16 has the sprite
\* of state 0.
C27_FenceLayeredBackPostFront ==
    pc = "done" =>
      /\ \A data \in FenceStates :
           /\ FenceCanvas(data).base = [op |-> "new", size |-> <<24, 24>>]
           /\ FenceLayers(data) = FenceOrder(data)
      /\ \A d1 \in FenceStates, d2 \in FenceStates :
           d1 % 16 = d2 % 16 => specialblockmap[<<85, d1>>] = specialblockmap[<<85, d2>>]
      /\ specialblockmap[<<85, 16>>] = specialblockmap[<<85, 0>>]

\* C27 witness: the import has finished, the fence with all four stubs is
\* stored with five layers and the declared state 16 is stored with the post
\* alone
C27_FencesStored ==
    /\ pc = "done"
    /\ <<85, 15>> \in DOMAIN specialblockmap
    /\ <<85, 16>> \in DOMAIN specialblockmap
    /\ Len(FenceCanvas(15).ops) = 5
    /\ FenceLayers(16) = <<"post">>

\* ---- the side tile of the half step (44) and of snow (78) ----

\* the 16x16 image that transform_image_side resized and sheared
SideBeforeResize == call.result.src.src

\* what row r of x shows of the tile the call was given: one of the tile's
\* rows, or nothing (transparent). x is the tile itself or an empty canvas
\* with rows of the tile composited into a rectangle (x0, y0, x1, y1)
ShownRow(x, r) ==
    IF x = call.args[1] THEN [shows |-> "row", row |-> r]
    ELSE IF /\ x.ops[1].src.op = "crop"
            /\ x.ops[1].src.src = call.args[1]
            /\ x.ops[1].mask = x.ops[1].src
            /\ x.ops[1].pos[2] <= r
            /\ r < x.ops[1].pos[4]
      THEN [shows |-> "row", row |-> x.ops[1].src.box[2] + (r - x.ops[1].pos[2])]
    ELSE [shows |-> "nothing"]

\* x is a fresh transparent 16x16 image with one layer
MaskedTile(x) ==
    /\ x.op = "canvas"
    /\ x.base = [op |-> "new", size |-> <<16, 16>>]
    /\ Len(x.ops) = 1
    /\ x.ops[1].k = "alpha_over"

\* snow: rows 0..11 are transparent and rows 12..15 are the tile's own
SnowRowsInPlace ==
    (Calling("transform_image_side") /\ call.args[2] = 78) =>
      /\ MaskedTile(SideBeforeResize)
      /\ \A r \in 0 .. 11 : ShownRow(SideBeforeResize, r) = [shows |-> "nothing"]
      /\ \A r \in 12 .. 15 : ShownRow(SideBeforeResize, r) = [shows |-> "row", row |-> r]

====
